---- MODULE Spec2Model ----
(***************************************************************************)
(* Verification model of the dragonfly storage engine sources:             *)
(*   - src/server/tiered_storage.cc   (TieredStorage, ShardOpManager)      *)
(*   - src/core/compact_object.h      (CompactObj flags and cell states)   *)
(*   - src/server/zset_family.cc      (sorted-set commands, streamer)      *)
(*   - src/server/hset_family.cc      (hash commands)                      *)
(* Every subsystem has its own specification (SpecTiered, SpecTx, ...);    *)
(* the variables of the other subsystems stay at their initial value.      *)
(* Sizes are scaled down (a page is kPageSize bytes) so that values are    *)
(* explicit byte sequences that TLC can enumerate.                         *)
(***************************************************************************)
EXTENDS Integers, Sequences, FiniteSets, TLC

(***************************************************************************)
(* Generic helpers                                                         *)
(***************************************************************************)
Pow2(n) == 2 ^ n

Max(a, b) == IF a > b THEN a ELSE b

Min(a, b) == IF a < b THEN a ELSE b

RECURSIVE SumOver(_, _)
SumOver(S, f) ==
  IF S = {} THEN 0
  ELSE LET x == CHOOSE y \in S : TRUE IN f[x] + SumOver(S \ {x}, f)

\* the elements of a finite set of integers in ascending order
RECURSIVE SortedSeq(_)
SortedSeq(S) ==
  IF S = {} THEN << >>
  ELSE LET m == CHOOSE x \in S : \A y \in S : x <= y IN << m >> \o SortedSeq(S \ {m})

Restrict(f, S) == [x \in S |-> f[x]]

\* F of e, with e evaluated once
Bind(e, F(_)) == F(e)

(***************************************************************************)
(* CompactObj: flag bits and the ASCII (7-bit) packing of string payloads  *)
(***************************************************************************)
ASCII1_ENC_BIT == 8

ASCII2_ENC_BIT == 16

Byte == 0 .. 255

IsAscii(str) == \A i \in 1 .. Len(str) : str[i] < 128

binpacked_len(ascii_sz) == (ascii_sz * 7 + 7) \div 8

ascii_len(bin_sz) == (bin_sz * 8) \div 7

\* 8 seven-bit characters -> 7 bytes
PackBlock(a) ==
  [j \in 1 .. 7 |-> (a[j] \div Pow2(j - 1)) + (a[j + 1] % Pow2(j)) * Pow2(8 - j)]

\* 7 bytes -> 8 seven-bit characters
UnpackBlock(b) ==
  [j \in 1 .. 8 |->
     IF j = 8 THEN b[7] \div 2
     ELSE (IF j = 1 THEN 0 ELSE b[j - 1] \div Pow2(9 - j))
          + (b[j] % Pow2(8 - j)) * Pow2(j - 1)]

RECURSIVE ascii_pack(_)
ascii_pack(str) ==
  IF Len(str) >= 8
  THEN PackBlock(SubSeq(str, 1, 8)) \o ascii_pack(SubSeq(str, 9, Len(str)))
  ELSE str

RECURSIVE ascii_unpack(_, _)
ascii_unpack(bin, n) ==
  IF n >= 8
  THEN UnpackBlock(SubSeq(bin, 1, 7)) \o ascii_unpack(SubSeq(bin, 8, Len(bin)), n - 8)
  ELSE SubSeq(bin, 1, n)

\* the encoding flags EncodeString puts in the mask for a logical string
EncMask(str) ==
  IF ~IsAscii(str) THEN 0
  ELSE IF ascii_len(binpacked_len(Len(str))) = Len(str) THEN ASCII2_ENC_BIT
  ELSE ASCII1_ENC_BIT

EncodeString(str) == IF IsAscii(str) THEN ascii_pack(str) ELSE str

DecodedLen(sz, enc) == ascii_len(sz) - (IF enc = ASCII1_ENC_BIT THEN 1 ELSE 0)

(***************************************************************************)
(* A PrimeValue cell.  tag: "none" (no entry), "str" (in-memory string),   *)
(* "ext" (EXTERNAL_TAG), "obj" (a non-string object).  raw holds the       *)
(* stored (possibly packed) bytes, enc the ASCII*_ENC bits, iop IO_PENDING *)
(***************************************************************************)
NoCell == [tag |-> "none", raw |-> << >>, enc |-> 0, iop |-> FALSE, off |-> 0, len |-> 0]

StrCell(str) ==
  [tag |-> "str", raw |-> EncodeString(str), enc |-> EncMask(str), iop |-> FALSE,
   off |-> 0, len |-> 0]

ObjCell == [tag |-> "obj", raw |-> << >>, enc |-> 0, iop |-> FALSE, off |-> 0, len |-> 0]

IsExternal(pv) == pv.tag = "ext"

HasIoPending(pv) == pv.iop

SetIoPending(pv, b) == [pv EXCEPT !.iop = b]

GetString(pv) ==
  IF pv.enc # 0 THEN ascii_unpack(pv.raw, DecodedLen(Len(pv.raw), pv.enc)) ELSE pv.raw

GetRawString(pv) == pv.raw

\* Size(): the logical length of a string; the stored size of a segment
Size(pv) ==
  IF pv.tag = "ext" THEN pv.len
  ELSE IF pv.tag = "obj" THEN 1
  ELSE IF pv.enc # 0 THEN DecodedLen(Len(pv.raw), pv.enc) ELSE Len(pv.raw)

\* SetExternal keeps only the encoding bits of the mask
SetExternalCell(pv, offset, sz) ==
  [tag |-> "ext", raw |-> << >>, enc |-> pv.enc, iop |-> FALSE, off |-> offset, len |-> sz]

\* ImportExternal: the descriptor and the encoding flags only
ImportExternal(src) ==
  [tag |-> "ext", raw |-> << >>, enc |-> src.enc, iop |-> FALSE, off |-> src.off,
   len |-> src.len]

GetExternalSlice(pv) == [off |-> pv.off, len |-> pv.len]

\* Materialize: raw bytes are taken under the cell's own flags, a decoded
\* string is encoded again
Materialize(pv, str, is_raw) ==
  IF is_raw
  THEN [tag |-> "str", raw |-> str, enc |-> pv.enc, iop |-> pv.iop, off |-> 0, len |-> 0]
  ELSE [tag |-> "str", raw |-> EncodeString(str), enc |-> EncMask(str), iop |-> pv.iop,
        off |-> 0, len |-> 0]

ResetCell == [tag |-> "str", raw |-> << >>, enc |-> 0, iop |-> FALSE, off |-> 0, len |-> 0]

(***************************************************************************)
(* Tiered storage: constants.  Sizes are scaled: the page of 4 KiB is      *)
(* kPageSize bytes here, and the other sizes keep their ratio to it where  *)
(* the model can afford it.                                                *)
(***************************************************************************)
kPageSize == 32

kMinOccupancySize == 16

kMinValueSize == 4

\* the flag tiered_storage_write_depth
write_depth_limit_ == 1

\* the max_size the storage is opened with
max_file_size == 96

kInvalidBin == 255

kFragmentedBin == kInvalidBin - 1

\* bytes of a bin page's header: the entry count, and per entry its key hash,
\* offset and length
kBinHdrBytes == 1

kBinEntryHdrBytes == 3

\* caps of the model on counters that the program never resets
MaxStashVer == 2

MaxBinId == 1

MaxOverflow == 1

MaxCallbacks == 2

\* how many values the database stores or modifies in one run
MaxWrites == 1

Keys == {1, 2, 3}

\* a short ASCII value (packed, ASCII2), a short binary value (not packed)
\* and a long ASCII value that takes the whole-page path
SmallAscii == << 97, 98, 99, 100, 101, 102, 103, 104, 105, 106 >>

SmallBinary == << 200, 98, 99, 100, 101, 102, 103, 104, 105 >>

LargeAscii == << 97, 98, 99, 100, 101, 102, 103, 104, 105, 106, 107, 108, 109, 110, 111, 112 >>

LargeBinary == << 200, 98, 99, 100, 101, 102, 103, 104, 105, 106, 107, 108, 109, 110, 111, 112 >>

Tiny == << 120 >>

Values == {SmallAscii, SmallBinary, LargeAscii, LargeBinary, Tiny}

\* the values the database stores at each key
ValuesOf(k) ==
  IF k = 2 THEN {SmallBinary, Tiny}
  ELSE IF k = 3 THEN {SmallAscii, LargeAscii, LargeBinary}
  ELSE {SmallAscii, LargeAscii}

\* the bytes Modify's functions append
ModBytes == {122}

KeyId(k) == << "key", k >>

BinEntry(b) == << "bin", b >>

OccupiesWholePages(size) == size >= kMinOccupancySize

Segment(offset, length) == [off |-> offset, len |-> length]

\* DiskSegment::FillPages / ContainingPages: the pages that hold the segment
FillPages(seg) ==
  LET first == (seg.off \div kPageSize) * kPageSize
      last  == ((seg.off + seg.len + kPageSize - 1) \div kPageSize) * kPageSize
  IN Segment(first, Max(last - first, kPageSize))

Pages == {p * kPageSize : p \in 0 .. (max_file_size \div kPageSize) - 1}

VARIABLES
  table,                  \* prime table of the database: key -> PrimeValue
  logical,                \* history: the logical string each key holds
  tiered_entries,         \* DbTableStats::tiered_entries
  tiered_used_bytes,      \* DbTableStats::tiered_used_bytes
  current_bin_,           \* SmallBins: the filling bin, key -> raw value
  current_bin_bytes_,     \* SmallBins: bytes of the filling bin
  pending_bins_,          \* SmallBins: bin id -> (key -> sub segment in the page)
  stashed_bins_,          \* SmallBins: page offset -> [entries, bytes]
  last_bin_id_,           \* SmallBins: last bin id given out
  pending_stash_ver_,     \* OpManager: entry id -> version of its pending stash
  pending_stash_counter_, \* OpManager: version counter
  pending_reads_,         \* OpManager: page offset -> ReadOp
  stash_io,               \* DiskStorage: stash writes in flight
  alloc,                  \* DiskStorage: allocated page offsets
  disk,                   \* DiskStorage: page offset -> bytes written there
  stash_overflow_cnt,     \* TieredStorage::stats_.stash_overflow_cnt
  offloading_cursor_,     \* TieredStorage::offloading_cursor_
  cache_fetched_,         \* ShardOpManager::cache_fetched_
  snapshot_in_progress,   \* SliceSnapshot::IsSnaphotInProgress()
  resolved,               \* futures resolved by the last step
  num_writes              \* history: the values stored or modified so far

tvars == << table, logical, tiered_entries, tiered_used_bytes, current_bin_,
            current_bin_bytes_, pending_bins_, stashed_bins_, last_bin_id_,
            pending_stash_ver_, pending_stash_counter_, pending_reads_, stash_io, alloc,
            disk, stash_overflow_cnt, offloading_cursor_, cache_fetched_,
            snapshot_in_progress, resolved, num_writes >>

\* The journal streamer of a replication or migration flow
VARIABLES
  in_flight_bytes_,       \* JournalStreamer::in_flight_bytes_
  pending_buf_,           \* JournalStreamer::pending_buf_, its size
  async_writes,           \* socket writes in flight, their lengths in order
  cntx_,                  \* Context: cancellation and the first error reported
  waker_,                 \* EventCount: the suspended fibers that were notified
  fiber                   \* the fibers that run the journal change callback

jvars == << in_flight_bytes_, pending_buf_, async_writes, cntx_, waker_, fiber >>

\* The bytes of the journal stream
VARIABLES
  stream                  \* the bytes passed to Write, those in pending_buf_ and
                          \* those handed to the socket, in order

\* A slot migration of one shard
VARIABLES
  restore                 \* the RestoreStreamer, the table it walks, the callbacks
                          \* that are registered and the entries it has serialized

\* One connection of the load generator
VARIABLES
  driver                  \* the Driver, its socket and the server behind it

svars == << stream, restore, driver >>

\* One hash key of a database
VARIABLES
  hash_pv,                \* the PrimeValue at the key
  listpack_blob_cnt,      \* DbTableStats::listpack_blob_cnt
  listpack_bytes,         \* DbTableStats::listpack_bytes
  hash_now,               \* DbContext::time_now_ms, in seconds
  last_cmd,               \* history: the last command and its reply
  num_cmds                \* history: the commands run so far

hvars == << hash_pv, listpack_blob_cnt, listpack_bytes, hash_now, last_cmd, num_cmds >>

\* The sorted sets of a database, the transactions and the blocked clients
VARIABLES
  zdb,                    \* key -> the object at the key
  key_locks,              \* key -> the transaction that holds its lock, 0 if free
  tx,                     \* the transactions of the connections
  observed,               \* history: shard -> the transactions whose hops ran
  watched,                \* key -> the queue of clients blocked on it
  bz                      \* the clients that run BZPOPMIN / BZPOPMAX

zvars == << zdb, key_locks, tx, observed, watched, bz >>

\* The sorted-set commands of one connection
VARIABLES
  zlast                   \* history: the last command, its reply, the database
                          \* before and after it

rvars == << zlast >>

\* The sorted sets of a database with their encodings
VARIABLES
  zobj                    \* key -> the encoding and the entries of the sorted set

evars == << zobj >>

\* a step of one subsystem leaves the variables of the others alone
nonTiered == << jvars, hvars, zvars, rvars, evars, svars >>

nonJournal == << tvars, hvars, zvars, rvars, evars, svars >>

nonHash == << tvars, jvars, zvars, rvars, evars, svars >>

nonZSet == << tvars, jvars, hvars, rvars, evars, svars >>

vars == << tvars, jvars, hvars, zvars, rvars, evars, svars >>

\* no key, or a key of another type
NoObj == [tag |-> "none", enc |-> "none", lp |-> << >>, sm |-> << >>]

StringObj == [tag |-> "string", enc |-> "raw", lp |-> << >>, sm |-> << >>]

NoCmd == [cmd |-> "none"]

HashStart(pv) ==
  /\ hash_pv = pv
  /\ listpack_blob_cnt = 0
  /\ listpack_bytes = 0
  /\ hash_now = 0
  /\ last_cmd = NoCmd
  /\ num_cmds = 0

InitHash == \E pv \in {NoObj, StringObj} : HashStart(pv)

IdleHash == HashStart(NoObj)

RBuckets == {1, 2, 3}

RKeys == {1, 2, 3, 4}

\* the bucket of a key, and the first version DbSlice hands out
BucketOf(k) == IF k <= 2 THEN 1 ELSE k - 1

\* RestoreStreamer::RestoreStreamer over a table of three live keys: no
\* snapshot version, not cancelled, nothing registered, nothing written
RestoreStart ==
  [table |-> [k \in RKeys |-> IF k = 4 THEN 0 ELSE 1],
   version |-> [b \in RBuckets |-> 0],
   next_version |-> 1,
   snapshot_version_ |-> 0, fiber_cancelled_ |-> FALSE, dest_ |-> FALSE,
   db_cb |-> {}, journal_cb |-> FALSE,
   db_unreg |-> 0, journal_unreg |-> 0, unreg_early |-> FALSE,
   aborted |-> FALSE,
   run |-> "idle", cursor |-> 0, run_started |-> FALSE,
   cancel |-> [f \in {1, 2} |-> [pc |-> "idle", sver |-> 0]],
   at_start |-> [k \in RKeys |-> 0], mutations |-> 0,
   serialized |-> << >>]

\* Driver::Driver: no request queued, the socket connected, nothing sent
DriverStart ==
  [pc |-> "send", i |-> 0, reqs_ |-> 0, socket |-> "open", to_server |-> 0,
   to_client |-> 0, receive_fb |-> "running", popped_empty |-> FALSE,
   num_responses |-> 0]

Fibers == {1, 2}

\* JournalStreamer::JournalStreamer: nothing in flight, no fiber in the callback
InitJournal ==
  /\ in_flight_bytes_ = 0
  /\ pending_buf_ = 0
  /\ async_writes = << >>
  /\ cntx_ = [stopped |-> FALSE, error |-> "none"]
  /\ waker_ = {}
  /\ fiber = [f \in Fibers |-> [pc |-> "idle", waited |-> 0, item |-> 0,
                                last |-> "none", returns |-> 0, items |-> 0]]
  /\ stream = [written |-> << >>, pending |-> << >>, handed |-> << >>]
  /\ restore = RestoreStart
  /\ driver = DriverStart

\* The state the shard-local operations work on, passed through the calls
\* one handler makes.
World ==
  [table |-> table, te |-> tiered_entries, tub |-> tiered_used_bytes,
   cbin |-> current_bin_, cbytes |-> current_bin_bytes_, pbins |-> pending_bins_,
   sbins |-> stashed_bins_, binid |-> last_bin_id_, ver |-> pending_stash_ver_,
   counter |-> pending_stash_counter_, reads |-> pending_reads_, io |-> stash_io,
   alloc |-> alloc, overflow |-> stash_overflow_cnt, resolved |-> << >>,
   dfatal |-> FALSE, ret |-> FALSE]

Commit(w) ==
  /\ table' = w.table
  /\ tiered_entries' = w.te
  /\ tiered_used_bytes' = w.tub
  /\ current_bin_' = w.cbin
  /\ current_bin_bytes_' = w.cbytes
  /\ pending_bins_' = w.pbins
  /\ stashed_bins_' = w.sbins
  /\ last_bin_id_' = w.binid
  /\ pending_stash_ver_' = w.ver
  /\ pending_stash_counter_' = w.counter
  /\ pending_reads_' = w.reads
  /\ stash_io' = w.io
  /\ alloc' = w.alloc
  /\ stash_overflow_cnt' = w.overflow
  /\ resolved' = w.resolved
  /\ UNCHANGED nonTiered

\* a function without the argument x
Without(f, x) == [y \in (DOMAIN f) \ {x} |-> f[y]]

With(f, x, v) == [y \in (DOMAIN f) \cup {x} |-> IF y = x THEN v ELSE f[y]]

(***************************************************************************)
(* SmallBins                                                               *)
(***************************************************************************)
\* bytes one value takes in a bin page
StashedValueSize(raw) == kBinEntryHdrBytes + Len(raw)

\* the page of the filling bin: header (count; per entry key hash, offset,
\* length), then the raw values, in key order.  Returns the bytes and the sub
\* segments.
RECURSIVE BinLayout(_, _, _)
BinLayout(ks, bin, offset) ==
  IF ks = << >> THEN << >>
  ELSE << [key |-> Head(ks), off |-> offset, len |-> Len(bin[Head(ks)])] >>
       \o BinLayout(Tail(ks), bin, offset + Len(bin[Head(ks)]))

RECURSIVE BinHeader(_)
BinHeader(lay) ==
  IF lay = << >> THEN << >>
  ELSE << lay[1].key, lay[1].off, lay[1].len >> \o BinHeader(Tail(lay))

RECURSIVE BinBody(_, _)
BinBody(lay, bin) ==
  IF lay = << >> THEN << >> ELSE bin[lay[1].key] \o BinBody(Tail(lay), bin)

\* the sub segment the layout gives a key
SubSegmentOf(lay, k) ==
  LET e == CHOOSE i \in 1 .. Len(lay) : lay[i].key = k IN Segment(lay[e].off, lay[e].len)

\* SmallBins::FlushBin: gives the filling bin an id, remembers its keys as
\* pending and returns [id, data]
FlushBin(w) ==
  Bind(SortedSeq(DOMAIN w.cbin), LAMBDA ks :
  Bind(BinLayout(ks, w.cbin, kBinHdrBytes + kBinEntryHdrBytes * Len(ks)), LAMBDA lay :
    [w |-> [w EXCEPT !.binid = w.binid + 1,
                     !.pbins = With(w.pbins, w.binid + 1,
                                    [k \in DOMAIN w.cbin |-> SubSegmentOf(lay, k)]),
                     !.cbin = << >>, !.cbytes = 0],
     id |-> w.binid + 1,
     data |-> << Len(ks) >> \o BinHeader(lay) \o BinBody(lay, w.cbin)]))

\* whether SmallBins::Stash of raw would flush the filling bin first
BinWouldFlush(w, raw) ==
  kBinHdrBytes + w.cbytes + StashedValueSize(raw) >= kPageSize

\* SmallBins::Stash: [w, filled, id, data]
BinsStash(w, k, raw) ==
  Bind(IF BinWouldFlush(w, raw) THEN FlushBin(w) ELSE [w |-> w, id |-> 0, data |-> << >>],
       LAMBDA fl :
         [w |-> [fl.w EXCEPT !.cbin = With(fl.w.cbin, k, raw),
                             !.cbytes = fl.w.cbytes + StashedValueSize(raw)],
          filled |-> BinWouldFlush(w, raw), id |-> fl.id, data |-> fl.data])

\* SmallBins::ReportStashed: the bin is on disk at segment; its keys with
\* their absolute segments
BinsReportStashed(w, id, segment) ==
  Bind(IF id \in DOMAIN w.pbins THEN w.pbins[id] ELSE << >>, LAMBDA subs :
  Bind(SortedSeq(DOMAIN subs), LAMBDA ks :
    [w |-> [w EXCEPT !.pbins = Without(w.pbins, id),
                     !.sbins = With(w.sbins, segment.off,
                                     [entries |-> Len(ks),
                                      bytes |-> SumOver(DOMAIN subs,
                                                        [k \in DOMAIN subs |-> subs[k].len])])],
     list |-> [i \in 1 .. Len(ks) |->
                 [key |-> ks[i],
                  seg |-> Segment(segment.off + subs[ks[i]].off, subs[ks[i]].len)]]]))

\* SmallBins::ReportStashAborted: the keys of the pending bin
BinsReportStashAborted(w, id) ==
  LET subs == IF id \in DOMAIN w.pbins THEN w.pbins[id] ELSE << >>
  IN [w |-> [w EXCEPT !.pbins = Without(w.pbins, id)], keys |-> SortedSeq(DOMAIN subs)]

\* SmallBins::Delete(dbid, key): drop a key whose stash has not completed;
\* returns the id of a pending bin that became empty (0: none)
BinsDeleteKey(w, k) ==
  IF k \in DOMAIN w.cbin
  THEN [w |-> [w EXCEPT !.cbin = Without(w.cbin, k),
                        !.cbytes = w.cbytes - StashedValueSize(w.cbin[k])],
        id |-> 0]
  ELSE LET ids == {b \in DOMAIN w.pbins : k \in DOMAIN w.pbins[b]}
       IN IF ids = {} THEN [w |-> w, id |-> 0]
          ELSE LET b == CHOOSE x \in ids : \A y \in ids : x <= y
                   left == Without(w.pbins[b], k)
               IN [w |-> [w EXCEPT !.pbins[b] = left],
                   id |-> IF DOMAIN left = {} THEN b ELSE 0]

\* SmallBins::Delete(segment): a stashed value is gone; BinInfo tells whether
\* its bin is now empty or fragmented
BinsDeleteSegment(w, segment) ==
  LET full == FillPages(segment)
  IN IF full.off \in DOMAIN w.sbins
     THEN LET bin == w.sbins[full.off]
              nb  == [entries |-> bin.entries - 1, bytes |-> bin.bytes - segment.len]
          IN IF nb.entries = 0
             THEN [w |-> [w EXCEPT !.sbins = Without(w.sbins, full.off)],
                   segment |-> full, fragmented |-> FALSE, empty |-> TRUE]
             ELSE [w |-> [w EXCEPT !.sbins[full.off] = nb],
                   segment |-> IF 2 * nb.bytes < kPageSize THEN full ELSE segment,
                   fragmented |-> 2 * nb.bytes < kPageSize, empty |-> FALSE]
     ELSE [w |-> w, segment |-> segment, fragmented |-> FALSE, empty |-> FALSE]

\* SmallBins::DeleteBin: forget the bin at segment and list the entries its
\* page holds, from the page's header
BinsDeleteBin(w, segment, page) ==
  IF segment.off \in DOMAIN w.sbins /\ Len(page) >= 1
  THEN [w |-> [w EXCEPT !.sbins = Without(w.sbins, segment.off)],
        list |-> [i \in 1 .. page[1] |->
                    [hash |-> page[2 + 3 * (i - 1)],
                     seg |-> Segment(segment.off + page[3 + 3 * (i - 1)],
                                     page[4 + 3 * (i - 1)])]]]
  ELSE [w |-> w, list |-> << >>]

(***************************************************************************)
(* OpManager / DiskStorage                                                 *)
(***************************************************************************)
\* OpManager::GetStats().pending_stash_cnt
pending_stash_cnt(w) == Cardinality(DOMAIN w.ver)

\* DiskStorage: allocated_bytes
allocated_bytes(w) == Cardinality(w.alloc) * kPageSize

MarkAsFree(w, segment) == [w EXCEPT !.alloc = w.alloc \ {FillPages(segment).off}]

\* OpManager::Stash: a new version for the entry, a page for the data and a
\* write in flight; an immediate error (ec) forgets the version again
OpStash(w, id, data, ec) ==
  LET version == w.counter + 1
      offset  == CHOOSE p \in Pages \ w.alloc : \A q \in Pages \ w.alloc : p <= q
  IN IF ec \/ Pages \ w.alloc = {}
     THEN [w EXCEPT !.counter = version, !.ver = Without(w.ver, id), !.ret = FALSE]
     ELSE [w EXCEPT !.counter = version, !.ver = With(w.ver, id, version),
                    !.alloc = w.alloc \cup {offset},
                    !.io = w.io \cup {[id |-> id, version |-> version, off |-> offset,
                                       data |-> data]},
                    !.ret = TRUE]

\* OpManager::Delete(EntryId): cancel a pending stash
OpDelete(w, id) == [w EXCEPT !.ver = Without(w.ver, id)]

\* ReadOp::ForSegment: the operations on one segment of a page being read
ForSegment(key_ops, id, segment) ==
  IF \E i \in 1 .. Len(key_ops) : key_ops[i].seg.off = segment.off
  THEN key_ops
  ELSE Append(key_ops, [id |-> id, seg |-> segment, cbs |-> << >>, deleting |-> FALSE])

\* OpManager::Enqueue: a read of the page (one per page), and the callback
\* added to the operations on its segment
Enqueue(w, id, segment, cb) ==
  LET page == FillPages(segment)
      op   == IF page.off \in DOMAIN w.reads THEN w.reads[page.off]
              ELSE [segment |-> page, key_ops |-> << >>]
      kos  == ForSegment(op.key_ops, id, segment)
      i    == CHOOSE j \in 1 .. Len(kos) : kos[j].seg.off = segment.off
  IN [w EXCEPT !.reads = With(w.reads, page.off,
                               [op EXCEPT !.key_ops =
                                  [kos EXCEPT ![i].cbs = Append(kos[i].cbs, cb)]])]

(***************************************************************************)
(* TieredStorage::ShardOpManager                                           *)
(***************************************************************************)
Find(w, k) == w.table[k]

IsValid(pv) == pv.tag # "none"

\* RecordAdded / RecordDeleted on the database's statistics
RecordAdded(w, tiered_len) == [w EXCEPT !.te = w.te + 1, !.tub = w.tub + tiered_len]

RecordDeleted(w, tiered_len) == [w EXCEPT !.te = w.te - 1, !.tub = w.tub - tiered_len]

ClearIoPendingKey(w, k) ==
  IF IsValid(Find(w, k)) THEN [w EXCEPT !.table[k] = SetIoPending(w.table[k], FALSE)] ELSE w

RECURSIVE ClearIoPendingKeys(_, _)
ClearIoPendingKeys(w, ks) ==
  IF ks = << >> THEN w ELSE ClearIoPendingKeys(ClearIoPendingKey(w, Head(ks)), Tail(ks))

ClearIoPendingBin(w, id) ==
  Bind(BinsReportStashAborted(w, id), LAMBDA r : ClearIoPendingKeys(r.w, r.keys))

\* visit(ClearIoPending, id)
ClearIoPending(w, id) ==
  IF id[1] = "key" THEN ClearIoPendingKey(w, id[2]) ELSE ClearIoPendingBin(w, id[2])

\* SetExternal that trusts the key to be in the table still
SetExternalKeyNoFind(w, k, segment) ==
  LET w1 == RecordAdded(w, segment.len)
  IN [w1 EXCEPT !.table[k] =
        SetExternalCell(SetIoPending(w.table[k], FALSE), segment.off, segment.len)]

\* ShardOpManager::SetExternal(KeyRef)
SetExternalKey(w, k, segment) ==
  IF IsValid(Find(w, k))
  THEN LET w1 == RecordAdded(w, segment.len)
       IN [w1 EXCEPT !.table[k] =
             SetExternalCell(SetIoPending(w.table[k], FALSE), segment.off, segment.len)]
  ELSE w

RECURSIVE SetExternalKeys(_, _)
SetExternalKeys(w, list) ==
  IF list = << >> THEN w
  ELSE SetExternalKeys(SetExternalKey(w, list[1].key, list[1].seg), Tail(list))

SetExternalBin(w, id, segment) ==
  Bind(BinsReportStashed(w, id, segment), LAMBDA r : SetExternalKeys(r.w, r.list))

SetExternal(w, id, segment) ==
  IF id[1] = "key" THEN SetExternalKey(w, id[2], segment)
  ELSE SetExternalBin(w, id[2], segment)

\* NotifyStashed that takes a failed stash for a stored one
NotifyStashedAnyway(w, id, ok, segment) == SetExternal(w, id, segment)

\* NotifyStashed that forgets the entries of a failed stash
NotifyStashedNoClear(w, id, ok, segment) ==
  IF ~ok THEN w ELSE SetExternal(w, id, segment)

NotifyStashed(w, id, ok, segment) ==
  IF ~ok THEN ClearIoPending(w, id) ELSE SetExternal(w, id, segment)

\* OpManager::ProcessStashed: only the stash with the entry's current version
\* is reported; a superseded or cancelled one gives its segment back
ProcessStashed(w, id, version, ok, segment) ==
  IF id \in DOMAIN w.ver /\ w.ver[id] = version
  THEN NotifyStashed([w EXCEPT !.ver = Without(w.ver, id)], id, ok, segment)
  ELSE IF ok THEN MarkAsFree(w, segment) ELSE w

\* Upload that leaves the statistics alone
UploadNoStats(w, k, value, is_raw, serialized_len) ==
  [w EXCEPT !.table[k] = Materialize(w.table[k], value, is_raw)]

Upload(w, k, value, is_raw, serialized_len) ==
  RecordDeleted([w EXCEPT !.table[k] = Materialize(w.table[k], value, is_raw)],
                serialized_len)

\* NotifyDelete: [w, ret]; ret tells the caller to free the segment's pages
NotifyDelete(w, segment) ==
  IF OccupiesWholePages(segment.len) THEN [w EXCEPT !.ret = TRUE]
  ELSE Bind(BinsDeleteSegment(w, segment), LAMBDA bin :
         IF bin.empty THEN [bin.w EXCEPT !.ret = TRUE]
         ELSE IF bin.fragmented
         THEN [Enqueue(bin.w, BinEntry(kFragmentedBin), bin.segment,
                       [kind |-> "defrag", decoder |-> NoCell, arg |-> 0, key |-> 0,
                        want |-> << >>])
                EXCEPT !.ret = FALSE]
         ELSE [bin.w EXCEPT !.ret = FALSE])

\* the part of a page that holds a segment
PageSubstr(page, start, length) ==
  SubSeq(page, Min(start, Len(page)) + 1, Min(start + length, Len(page)))

\* Defragment that takes any EXTERNAL value of the key for the bin's entry
RECURSIVE DefragmentListAnySegment(_, _, _, _)
DefragmentListAnySegment(w, list, segment, page) ==
  IF list = << >> THEN w
  ELSE LET item == list[1]
           k    == item.hash
           hit  == k \in Keys /\ IsExternal(w.table[k])
           value == PageSubstr(page, item.seg.off - segment.off, item.seg.len)
       IN DefragmentListAnySegment(IF hit THEN Upload(w, k, value, TRUE, item.seg.len)
                                   ELSE w,
                                   Tail(list), segment, page)

\* Defragment: every entry of the bin whose key still points at its segment
\* goes back to memory
RECURSIVE DefragmentList(_, _, _, _)
DefragmentList(w, list, segment, page) ==
  IF list = << >> THEN w
  ELSE LET item == list[1]
           k    == item.hash
           hit  == /\ k \in Keys
                   /\ IsExternal(w.table[k])
                   /\ GetExternalSlice(w.table[k]) = item.seg
           value == PageSubstr(page, item.seg.off - segment.off, item.seg.len)
       IN DefragmentList(IF hit THEN Upload(w, k, value, TRUE, item.seg.len) ELSE w,
                         Tail(list), segment, page)

Defragment(w, segment, page) ==
  Bind(BinsDeleteBin(w, segment, page),
       LAMBDA r : DefragmentList(r.w, r.list, segment, page))

\* NotifyFetched: [w, ret]; ret tells the caller to delete the segment
NotifyFetched(w, id, value, segment, modified) ==
  IF id = BinEntry(kFragmentedBin)
  THEN [Defragment(w, segment, value) EXCEPT !.ret = TRUE]
  ELSE LET should_upload == modified \/ (cache_fetched_ /\ ~snapshot_in_progress)
           k  == id[2]
           pv == Find(w, k)
       IN IF ~should_upload THEN [w EXCEPT !.ret = FALSE]
          ELSE IF IsValid(pv) /\ IsExternal(pv) /\ segment = GetExternalSlice(pv)
          THEN [Upload(w, k, value, ~modified, segment.len) EXCEPT !.ret = TRUE]
          ELSE [w EXCEPT !.ret = FALSE, !.dfatal = TRUE]

(***************************************************************************)
(* Read callbacks and OpManager::ProcessRead                               *)
(***************************************************************************)
\* DecodeString that hands out the bytes as they are on disk
DecodeStringAsIs(is_raw, str, decoder) == str

DecodeString(is_raw, str, decoder) ==
  IF is_raw THEN GetString(Materialize(decoder, str, TRUE)) ELSE str

\* the value Modify's callback hands to modf: decoded when it arrives raw
ModifyDecode(is_raw, raw_val, decoder) ==
  IF is_raw THEN GetString(Materialize(decoder, raw_val, TRUE)) ELSE raw_val

\* one callback on (is_raw, value): the value it leaves, whether it reports
\* "modified", and the future it resolves
RunCallback(cb, is_raw, value) ==
  IF cb.kind = "read"
  THEN [value |-> value, modified |-> FALSE,
        out |-> << [kind |-> "read", key |-> cb.key, is_raw |-> is_raw,
                    got |-> DecodeString(is_raw, value, cb.decoder), want |-> cb.want] >>]
  ELSE IF cb.kind = "modify"
  THEN LET str == Append(ModifyDecode(is_raw, value, cb.decoder), cb.arg)
       IN [value |-> str, modified |-> TRUE,
           out |-> << [kind |-> "modify", key |-> cb.key, is_raw |-> is_raw,
                       got |-> Len(str), want |-> cb.want] >>]
  ELSE [value |-> value, modified |-> FALSE, out |-> << >>]

\* for (auto& cb : ko.callbacks) modified |= cb(!modified, &key_value)
RECURSIVE RunCallbacks(_, _, _, _)
RunCallbacks(cbs, value, modified, out) ==
  IF cbs = << >> THEN [value |-> value, modified |-> modified, out |-> out]
  ELSE Bind(RunCallback(Head(cbs), ~modified, value), LAMBDA r :
         RunCallbacks(Tail(cbs), r.value, modified \/ r.modified, out \o r.out))

\* the loop of ProcessRead over the operations of the page, by index: the
\* notifications may append operations on the same page
RECURSIVE ProcessKeyOps(_, _, _, _, _)
ProcessKeyOps(w, offset, i, page, deleting_full) ==
  IF i > Len(w.reads[offset].key_ops) THEN [w EXCEPT !.ret = deleting_full]
  ELSE Bind(w.reads[offset].key_ops[i], LAMBDA ko :
       Bind(RunCallbacks(ko.cbs,
                         PageSubstr(page, ko.seg.off - w.reads[offset].segment.off,
                                    ko.seg.len),
                         FALSE, << >>), LAMBDA r :
       Bind(IF ~ko.deleting
            THEN NotifyFetched([w EXCEPT !.resolved = w.resolved \o r.out], ko.id, r.value,
                               ko.seg, r.modified)
            ELSE [w EXCEPT !.resolved = w.resolved \o r.out, !.ret = FALSE], LAMBDA w2 :
       Bind(IF ko.deleting \/ w2.ret THEN NotifyDelete(w2, ko.seg)
            ELSE [w2 EXCEPT !.ret = FALSE], LAMBDA w3 :
         ProcessKeyOps(w3, offset, i + 1, page,
                       deleting_full \/ ((ko.deleting \/ w2.ret) /\ w3.ret))))))

\* the operation on the whole page (a defragmentation read) goes last
BaseReadLast(key_ops) ==
  LET base == {i \in 1 .. Len(key_ops) - 1 : key_ops[i].seg.off % kPageSize = 0}
  IN IF base = {} THEN key_ops
     ELSE LET i == CHOOSE j \in base : \A m \in base : j <= m
          IN [key_ops EXCEPT ![i] = key_ops[Len(key_ops)], ![Len(key_ops)] = key_ops[i]]

ProcessRead(w, offset, page) ==
  Bind(ProcessKeyOps([w EXCEPT !.reads[offset].key_ops = BaseReadLast(@)], offset, 1, page,
                     FALSE), LAMBDA w1 :
    [w1 EXCEPT !.reads = Without(w1.reads, offset),
               !.alloc = IF w1.ret THEN w1.alloc \ {FillPages(w.reads[offset].segment).off}
                         ELSE w1.alloc])

\* whether the page read that is pending has operations on the segment
ReadPending(w, segment) ==
  /\ FillPages(segment).off \in DOMAIN w.reads
  /\ \E i \in 1 .. Len(w.reads[FillPages(segment).off].key_ops) :
        w.reads[FillPages(segment).off].key_ops[i].seg.off = segment.off

\* OpManager::DeleteOffloaded
DeleteOffloaded(w, segment) ==
  IF ReadPending(w, segment)
  THEN [w EXCEPT !.reads[FillPages(segment).off].key_ops =
          [i \in 1 .. Len(@) |->
             IF @[i].seg.off = segment.off THEN [@[i] EXCEPT !.deleting = TRUE] ELSE @[i]]]
  ELSE Bind(NotifyDelete(w, segment), LAMBDA w1 :
         IF w1.ret /\ FillPages(segment).off \notin DOMAIN w.reads
         THEN MarkAsFree(w1, FillPages(segment)) ELSE w1)

(***************************************************************************)
(* TieredStorage                                                           *)
(***************************************************************************)
\* ShouldStash without the test of IO_PENDING
ShouldStashIgnoresPending(w, pv) ==
  /\ ~IsExternal(pv)
  /\ pv.tag = "str"
  /\ Size(pv) >= kMinValueSize
  /\ allocated_bytes(w) + kPageSize + Size(pv) < max_file_size

\* TieredStorage::ShouldStash
ShouldStash(w, pv) ==
  /\ ~IsExternal(pv)
  /\ ~HasIoPending(pv)
  /\ pv.tag = "str"
  /\ Size(pv) >= kMinValueSize
  /\ allocated_bytes(w) + kPageSize + Size(pv) < max_file_size

\* the end of TryStash: an immediate error clears IO_PENDING for the entry
\* the stash was about
StashIssued(w2, id) ==
  IF ~w2.ret THEN [ClearIoPending(w2, id) EXCEPT !.ret = FALSE] ELSE w2

\* TryStash without the test of the write depth
TryStashNoDepth(w, k, ec) ==
  IF ~ShouldStash(w, w.table[k]) THEN [w EXCEPT !.ret = FALSE]
  ELSE IF OccupiesWholePages(Size(w.table[k]))
  THEN StashIssued(OpStash([w EXCEPT !.table[k] = SetIoPending(@, TRUE)], KeyId(k),
                           GetRawString(w.table[k]), ec),
                   KeyId(k))
  ELSE Bind(BinsStash([w EXCEPT !.table[k] = SetIoPending(@, TRUE)], k,
                      GetRawString(w.table[k])), LAMBDA bin :
         IF bin.filled
         THEN StashIssued(OpStash(bin.w, BinEntry(bin.id), bin.data, ec), BinEntry(bin.id))
         ELSE [bin.w EXCEPT !.ret = TRUE])

\* TryStash: w.ret is what it returns; ec is whether the storage fails the
\* stash at once
TryStash(w, k, ec) ==
  IF ~ShouldStash(w, w.table[k]) THEN [w EXCEPT !.ret = FALSE]
  ELSE IF pending_stash_cnt(w) >= write_depth_limit_
  THEN [w EXCEPT !.overflow = w.overflow + 1, !.ret = FALSE]
  ELSE IF OccupiesWholePages(Size(w.table[k]))
  THEN StashIssued(OpStash([w EXCEPT !.table[k] = SetIoPending(@, TRUE)], KeyId(k),
                           GetRawString(w.table[k]), ec),
                   KeyId(k))
  ELSE Bind(BinsStash([w EXCEPT !.table[k] = SetIoPending(@, TRUE)], k,
                      GetRawString(w.table[k])), LAMBDA bin :
         IF bin.filled
         THEN StashIssued(OpStash(bin.w, BinEntry(bin.id), bin.data, ec), BinEntry(bin.id))
         ELSE [bin.w EXCEPT !.ret = TRUE])

\* TieredStorage::Delete of an external value
Delete(w, k) ==
  LET segment == GetExternalSlice(w.table[k])
      w1 == DeleteOffloaded(w, segment)
  IN RecordDeleted([w1 EXCEPT !.table[k] = ResetCell], segment.len)

\* CancelStash that only clears the flag
CancelStashFlagOnly(w, k) == [w EXCEPT !.table[k] = SetIoPending(@, FALSE)]

\* TieredStorage::CancelStash of a value with IO_PENDING
CancelStash(w, k) ==
  Bind(IF OccupiesWholePages(Size(w.table[k])) THEN OpDelete(w, KeyId(k))
       ELSE Bind(BinsDeleteKey(w, k), LAMBDA bin :
              IF bin.id # 0 THEN OpDelete(bin.w, BinEntry(bin.id)) ELSE bin.w),
       LAMBDA w1 : [w1 EXCEPT !.table[k] = SetIoPending(@, FALSE)])

\* TieredStorage::Read; want is the string the key holds when Read is called
Read(w, k, want) ==
  Enqueue(w, KeyId(k), GetExternalSlice(w.table[k]),
          [kind |-> "read", decoder |-> ImportExternal(w.table[k]), arg |-> 0, key |-> k,
           want |-> want])

\* TieredStorage::Modify with modf = "append byte b, return the new size"
Modify(w, k, b, want) ==
  Enqueue(w, KeyId(k), GetExternalSlice(w.table[k]),
          [kind |-> "modify", decoder |-> ImportExternal(w.table[k]), arg |-> b, key |-> k,
           want |-> want])

\* the iteration limit of one RunOffloading call (scaled)
kMaxIterations == 4

\* the segments of the prime table: one per key, and three that hold no entry
NumSegments == Cardinality(Keys) + 3

\* the do-while loop of RunOffloading; one traversal step visits the segment
\* at the cursor (one key per segment) and returns the next cursor
RECURSIVE OffloadLoop(_, _, _, _)
OffloadLoop(w, cursor, iterations, ec) ==
  IF pending_stash_cnt(w) >= write_depth_limit_
  THEN [w |-> w, cursor |-> cursor, steps |-> iterations]
  ELSE Bind(IF cursor + 1 \in Keys /\ IsValid(w.table[cursor + 1])
            THEN TryStash(w, cursor + 1, ec) ELSE w,
            LAMBDA w1 :
              IF (cursor + 1) % NumSegments # 0 /\ iterations < kMaxIterations
              THEN OffloadLoop(w1, (cursor + 1) % NumSegments, iterations + 1, ec)
              ELSE [w |-> w1, cursor |-> (cursor + 1) % NumSegments,
                    steps |-> iterations + 1])

\* RunOffloading: [w, cursor, steps]; steps counts the calls of
\* TraverseBySegmentOrder
RunOffloading(w, cursor, ec) ==
  IF snapshot_in_progress THEN [w |-> w, cursor |-> cursor, steps |-> 0]
  ELSE IF allocated_bytes(w) + (kMaxIterations \div 2) * kPageSize > max_file_size
  THEN [w |-> w, cursor |-> cursor, steps |-> 0]
  ELSE OffloadLoop(w, cursor, 0, ec)

(***************************************************************************)
(* Actions of the tiered storage specification                             *)
(***************************************************************************)
WithinCaps(w) ==
  /\ w.counter <= MaxStashVer
  /\ w.binid <= MaxBinId
  /\ w.overflow <= MaxOverflow

\* TieredStorage::TieredStorage over a database that holds the strings l
TieredStart(l, cf) ==
  /\ logical = l
  /\ table = [k \in Keys |-> StrCell(l[k])]
  /\ tiered_entries = 0
  /\ tiered_used_bytes = 0
  /\ current_bin_ = << >>
  /\ current_bin_bytes_ = 0
  /\ pending_bins_ = << >>
  /\ stashed_bins_ = << >>
  /\ last_bin_id_ = 0
  /\ pending_stash_ver_ = << >>
  /\ pending_stash_counter_ = 0
  /\ pending_reads_ = << >>
  /\ stash_io = {}
  /\ alloc = {}
  /\ disk = [p \in Pages |-> << >>]
  /\ stash_overflow_cnt = 0
  /\ offloading_cursor_ = 0
  /\ cache_fetched_ = cf
  /\ snapshot_in_progress = FALSE
  /\ resolved = << >>
  /\ num_writes = 0

InitTiered ==
  \E l \in [Keys -> Values], cf \in BOOLEAN :
    /\ \A k \in Keys : l[k] \in ValuesOf(k) /\ Len(l[k]) >= kMinValueSize
    /\ TieredStart(l, cf)

\* the tiered storage while another subsystem is looked at
IdleTiered == TieredStart([k \in Keys |-> IF k = 2 THEN SmallBinary ELSE SmallAscii], TRUE)

\* the database stores a string at an absent key
SetKey(k, v) ==
  /\ table[k].tag = "none"
  /\ num_writes < MaxWrites
  /\ num_writes' = num_writes + 1
  /\ Commit([World EXCEPT !.table[k] = StrCell(v)])
  /\ logical' = [logical EXCEPT ![k] = v]
  /\ UNCHANGED << disk, offloading_cursor_, cache_fetched_, snapshot_in_progress >>

\* the database deletes a key: an external value goes through Delete, a
\* value with a stash in flight through CancelStash
DelKey(k) ==
  /\ table[k].tag # "none"
  /\ \E w \in {IF IsExternal(table[k]) THEN Delete(World, k)
               ELSE IF HasIoPending(table[k]) THEN CancelStash(World, k)
               ELSE World} :
       Commit([w EXCEPT !.table[k] = NoCell])
  /\ logical' = [logical EXCEPT ![k] = << >>]
  /\ UNCHANGED << disk, offloading_cursor_, cache_fetched_, snapshot_in_progress, num_writes >>

DoTryStash(k, ec) ==
  /\ table[k].tag # "none"
  /\ \E w \in {TryStash(World, k, ec)} : WithinCaps(w) /\ Commit(w)
  /\ UNCHANGED << logical, disk, offloading_cursor_, cache_fetched_, snapshot_in_progress,
                  num_writes >>

DoCancelStash(k) ==
  /\ table[k].tag = "str"
  /\ HasIoPending(table[k])
  /\ Commit(CancelStash(World, k))
  /\ UNCHANGED << logical, disk, offloading_cursor_, cache_fetched_, snapshot_in_progress, num_writes >>

DoRunOffloading(ec) ==
  /\ \E r \in {RunOffloading(World, offloading_cursor_, ec)} :
       /\ WithinCaps(r.w)
       /\ Commit(r.w)
       /\ offloading_cursor_' = r.cursor
  /\ UNCHANGED << logical, disk, cache_fetched_, snapshot_in_progress, num_writes >>

\* the completion of a stash write: a failed write gives its page back, then
\* OpManager::ProcessStashed runs
StashCompletion(w, io, ok) ==
  ProcessStashed([w EXCEPT !.io = w.io \ {io},
                           !.alloc = IF ok THEN w.alloc ELSE w.alloc \ {io.off}],
                 io.id, io.version, ok, Segment(io.off, Len(io.data)))

\* a stash write completes, with or without an error
StashDone(io, ok) ==
  /\ io \in stash_io
  /\ Commit(StashCompletion(World, io, ok))
  /\ disk' = IF ok THEN [disk EXCEPT ![io.off] = io.data] ELSE disk
  /\ UNCHANGED << logical, offloading_cursor_, cache_fetched_, snapshot_in_progress, num_writes >>

PendingCallbacks ==
  SumOver(DOMAIN pending_reads_,
          [o \in DOMAIN pending_reads_ |->
             SumOver(1 .. Len(pending_reads_[o].key_ops),
                     [i \in 1 .. Len(pending_reads_[o].key_ops) |->
                        Len(pending_reads_[o].key_ops[i].cbs)])])

DoRead(k) ==
  /\ IsExternal(table[k])
  /\ PendingCallbacks < MaxCallbacks
  /\ Commit(Read(World, k, logical[k]))
  /\ UNCHANGED << logical, disk, offloading_cursor_, cache_fetched_, snapshot_in_progress, num_writes >>

DoModify(k, b) ==
  /\ IsExternal(table[k])
  /\ PendingCallbacks < MaxCallbacks
  /\ num_writes < MaxWrites
  /\ num_writes' = num_writes + 1
  /\ Commit(Modify(World, k, b, Len(logical[k]) + 1))
  /\ logical' = [logical EXCEPT ![k] = Append(logical[k], b)]
  /\ UNCHANGED << disk, offloading_cursor_, cache_fetched_, snapshot_in_progress >>

\* the read of a page completes
ReadDone(offset) ==
  /\ offset \in DOMAIN pending_reads_
  /\ Commit(ProcessRead(World, offset, disk[offset]))
  /\ UNCHANGED << logical, disk, offloading_cursor_, cache_fetched_, snapshot_in_progress,
                  num_writes >>

SnapshotToggle ==
  /\ snapshot_in_progress' = ~snapshot_in_progress
  /\ Commit(World)
  /\ UNCHANGED << logical, disk, offloading_cursor_, cache_fetched_, num_writes >>

NextTiered ==
  \/ \E k \in Keys : \E v \in ValuesOf(k) : SetKey(k, v)
  \/ \E k \in Keys : DelKey(k)
  \/ \E k \in Keys, ec \in BOOLEAN : DoTryStash(k, ec)
  \/ \E k \in Keys : DoCancelStash(k)
  \/ \E io \in stash_io, ok \in BOOLEAN : StashDone(io, ok)
  \/ \E k \in Keys : DoRead(k)
  \/ \E k \in Keys, b \in ModBytes : DoModify(k, b)
  \/ \E o \in Pages : ReadDone(o)

\* the tiered storage of a shard while snapshots start and end
NextFetch ==
  \/ \E k \in Keys : \E v \in ValuesOf(k) : SetKey(k, v)
  \/ \E k \in Keys : DelKey(k)
  \/ \E k \in Keys, ec \in BOOLEAN : DoTryStash(k, ec)
  \/ \E io \in stash_io, ok \in BOOLEAN : StashDone(io, ok)
  \/ \E k \in Keys : DoRead(k)
  \/ \E k \in Keys, b \in ModBytes : DoModify(k, b)
  \/ \E o \in Pages : ReadDone(o)
  \/ SnapshotToggle

\* background offloading on its own: the traversal, the completions of its
\* stashes, snapshots that start and end, and keys the database deletes
NextOffload ==
  \/ \E ec \in BOOLEAN : DoRunOffloading(ec)
  \/ \E io \in stash_io, ok \in BOOLEAN : StashDone(io, ok)
  \/ \E k \in Keys : DelKey(k)
  \/ SnapshotToggle

IsCurrent(io) == io.id \in DOMAIN pending_stash_ver_ /\ pending_stash_ver_[io.id] = io.version

\* the keys a stash is about: the key itself, or every key of the bin
AffectedKeys(id) ==
  IF id[1] = "key" THEN {id[2]}
  ELSE IF id[2] \in DOMAIN pending_bins_ THEN DOMAIN pending_bins_[id[2]] ELSE {}

\* the reasons for which a value is not stashed, as the caller sees them
NotStashable(w, pv) ==
  \/ IsExternal(pv)
  \/ HasIoPending(pv)
  \/ pv.tag # "str"
  \/ Size(pv) < kMinValueSize
  \/ allocated_bytes(w) + kPageSize + Size(pv) >= max_file_size

\* the stashes in flight that are about key k: its own whole-page stash, the
\* pending bins that hold it, and the filling bin
StashesInFlight(k) ==
  (IF KeyId(k) \in DOMAIN pending_stash_ver_ THEN 1 ELSE 0)
  + Cardinality({b \in DOMAIN pending_bins_ : k \in DOMAIN pending_bins_[b]})
  + (IF k \in DOMAIN current_bin_ THEN 1 ELSE 0)

\* the values TryStash may meet at key k: the one the table holds, and an
\* object that is not a string
CellsAt(k) == {table[k], ObjCell} \ {NoCell}

\* C20: TryStash of a value that is EXTERNAL, has IO_PENDING, is not a
\* string, is smaller than the minimum stash size, or for which the disk file
\* lacks room returns false, sets no IO_PENDING and enqueues nothing; and no
\* entry has two stashes in flight at once (one in flight has IO_PENDING set).
C20_StashPreconditions ==
  /\ \A k \in Keys, ec \in BOOLEAN : \A pv \in CellsAt(k) :
       LET w0 == [World EXCEPT !.table[k] = pv]
           w  == TryStash(w0, k, ec)
       IN NotStashable(w0, pv) =>
            /\ ~w.ret
            /\ w.table = w0.table
            /\ w.ver = pending_stash_ver_
            /\ w.counter = pending_stash_counter_
            /\ w.io = stash_io
            /\ w.alloc = alloc
            /\ w.cbin = current_bin_
            /\ w.pbins = pending_bins_
            /\ w.overflow = stash_overflow_cnt
  /\ \A k \in Keys :
       /\ StashesInFlight(k) <= 1
       /\ StashesInFlight(k) = 1 => table[k].tag = "str" /\ HasIoPending(table[k])
       /\ Cardinality({io \in stash_io : IsCurrent(io) /\ k \in AffectedKeys(io.id)}) <= 1

\* C20 witness: one key is EXTERNAL, another has a stash in flight, and a
\* third is too small to stash
C20_Witness ==
  \E i, j, k \in Keys :
    /\ IsExternal(table[i])
    /\ HasIoPending(table[j]) /\ StashesInFlight(j) = 1
    /\ table[k].tag = "str" /\ Size(table[k]) < kMinValueSize /\ ~HasIoPending(table[k])

\* C20 witness of the full disk: a string of stashable size with no stash in
\* flight for which the file lacks room
C20_WitnessNoRoom ==
  \E k \in Keys :
    /\ table[k].tag = "str" /\ ~HasIoPending(table[k])
    /\ Size(table[k]) >= kMinValueSize
    /\ allocated_bytes(World) + kPageSize + Size(table[k]) >= max_file_size

\* the segment a successful stash reports for a key
ReportedSegment(io, k) ==
  IF io.id[1] = "key" THEN Segment(io.off, Len(io.data))
  ELSE Segment(io.off + pending_bins_[io.id[2]][k].off, pending_bins_[io.id[2]][k].len)

\* the keys whose stash fails when TryStash(k) gets an error at once
FailedAtOnce(k) ==
  IF OccupiesWholePages(Size(table[k])) THEN {k}
  ELSE IF BinWouldFlush(World, GetRawString(table[k])) THEN DOMAIN current_bin_
  ELSE {}

\* C2: when a stash completes, every key of it that is still present is
\* EXTERNAL at the reported segment (which holds its raw bytes) without
\* IO_PENDING on success, and the unchanged in-memory string without
\* IO_PENDING on failure, asynchronous or immediate; for a bin, all its keys.
C2_StashEnds ==
  /\ \A io \in stash_io, ok \in BOOLEAN :
       IsCurrent(io) =>
         LET w == StashCompletion(World, io, ok)
         IN \A k \in AffectedKeys(io.id) :
              IsValid(table[k]) =>
                IF ok
                THEN /\ IsExternal(w.table[k])
                     /\ ~HasIoPending(w.table[k])
                     /\ GetExternalSlice(w.table[k]) = ReportedSegment(io, k)
                     /\ PageSubstr(io.data, w.table[k].off - io.off, w.table[k].len)
                          = EncodeString(logical[k])
                     /\ w.table[k].enc = EncMask(logical[k])
                ELSE /\ HasIoPending(table[k])
                     /\ w.table[k] = SetIoPending(table[k], FALSE)
                     /\ w.table[k].tag = "str"
                     /\ GetString(w.table[k]) = logical[k]
  /\ \A k \in Keys :
       (ShouldStash(World, table[k]) /\ pending_stash_cnt(World) < write_depth_limit_)
       => LET w == TryStash(World, k, TRUE)
          IN \A j \in FailedAtOnce(k) :
               /\ w.table[j] = SetIoPending(table[j], FALSE)
               /\ w.table[j].tag = "str"
               /\ GetString(w.table[j]) = logical[j]

\* C2 witness: a bin was stashed and two of its keys are EXTERNAL in its page
C2_Witness ==
  \E j, k \in Keys :
    /\ j # k
    /\ IsExternal(table[j]) /\ IsExternal(table[k])
    /\ ~HasIoPending(table[j]) /\ ~HasIoPending(table[k])
    /\ FillPages(GetExternalSlice(table[j])) = FillPages(GetExternalSlice(table[k]))

\* the futures a completed page read resolves
Futures(kind) == {i \in 1 .. Len(resolved) : resolved[i].kind = kind}

\* C3: every Read of a stashed value resolves with the logical string the key
\* held when Read was called, whether its callback got the raw bytes of the
\* page (decoded with the imported flags) or an already decoded string.
C3_ReadRoundTrip ==
  /\ \A i \in Futures("read") : resolved[i].got = resolved[i].want
  /\ \A o \in DOMAIN pending_reads_ :
       LET w == ProcessRead(World, o, disk[o])
       IN \A i \in 1 .. Len(w.resolved) :
            w.resolved[i].kind = "read" => w.resolved[i].got = w.resolved[i].want

\* C3 witness: a Read got the packed bytes of an ASCII string and resolved
\* with the string
C3_Witness ==
  \E i \in Futures("read") :
    /\ resolved[i].is_raw
    /\ resolved[i].got = resolved[i].want
    /\ EncodeString(resolved[i].want) # resolved[i].want

\* C3 witness of the other branch: a Read that follows a Modify on the same
\* segment got the decoded string
C3_WitnessDecoded ==
  \E i \in Futures("read") : ~resolved[i].is_raw /\ resolved[i].got = resolved[i].want

\* the operations of a pending page read that carry a Modify and whose value
\* is not being deleted
ModifyOps(o) ==
  {i \in 1 .. Len(pending_reads_[o].key_ops) :
     /\ ~pending_reads_[o].key_ops[i].deleting
     /\ \E j \in 1 .. Len(pending_reads_[o].key_ops[i].cbs) :
          pending_reads_[o].key_ops[i].cbs[j].kind = "modify"}

\* the segment was given back: the page of a whole-page value is free; the
\* slot of a bin value is gone from its bin, or the bin with its page
SegmentReleased(w, segment) ==
  LET page == FillPages(segment).off
  IN IF segment.off = page THEN page \notin w.alloc
     ELSE \/ page \notin DOMAIN w.sbins
          \/ /\ page \in DOMAIN stashed_bins_
             /\ w.sbins[page].entries < stashed_bins_[page].entries

\* the futures of Modify resolve with what f returns on the decoded value
ModifyResolves(w) ==
  \A i \in 1 .. Len(w.resolved) :
    w.resolved[i].kind = "modify" => w.resolved[i].got = w.resolved[i].want

\* the entry holds f(v) in memory and is not EXTERNAL
ModifyUploads(w, k) ==
  /\ w.table[k].tag = "str"
  /\ ~IsExternal(w.table[k])
  /\ GetString(w.table[k]) = logical[k]

\* C4: when the fetch of a Modify completes, its future resolves with f of
\* the decoded value, the entry is the in-memory string f(v), no longer
\* EXTERNAL, and the old segment is released.
C4_Modify ==
  \A o \in DOMAIN pending_reads_ :
    LET w == ProcessRead(World, o, disk[o])
    IN \A i \in ModifyOps(o) :
         LET ko == pending_reads_[o].key_ops[i]
         IN /\ ModifyResolves(w)
            /\ ModifyUploads(w, ko.id[2])
            /\ SegmentReleased(w, ko.seg)

\* C4 without the release of the segment
C4_ModifyValue ==
  \A o \in DOMAIN pending_reads_ :
    LET w == ProcessRead(World, o, disk[o])
    IN \A i \in ModifyOps(o) :
         ModifyResolves(w) /\ ModifyUploads(w, pending_reads_[o].key_ops[i].id[2])

\* C4 for the values whose stored bytes fill whole pages or sit in a bin
C4_ModifyReleases ==
  \A o \in DOMAIN pending_reads_ :
    LET w == ProcessRead(World, o, disk[o])
    IN \A i \in ModifyOps(o) :
         LET ko == pending_reads_[o].key_ops[i]
         IN (ko.seg.off # FillPages(ko.seg).off \/ OccupiesWholePages(ko.seg.len))
            => SegmentReleased(w, ko.seg)

\* the operations of a pending page read that fetch the value of a key which
\* is not being deleted
FetchOps(o) ==
  {i \in 1 .. Len(pending_reads_[o].key_ops) :
     /\ ~pending_reads_[o].key_ops[i].deleting
     /\ pending_reads_[o].key_ops[i].id[1] = "key"}

\* what the callbacks of an operation leave: the value and whether one of
\* them modified it
FetchResult(o, i) ==
  RunCallbacks(pending_reads_[o].key_ops[i].cbs,
               PageSubstr(disk[o], pending_reads_[o].key_ops[i].seg.off - o,
                          pending_reads_[o].key_ops[i].seg.len),
               FALSE, << >>)

\* the fetch uploads: it modified the value, or reads are cached and no
\* snapshot is in progress
ShouldUpload(o, i) ==
  FetchResult(o, i).modified \/ (cache_fetched_ /\ ~snapshot_in_progress)

\* NotifyFetched for the operation: an upload takes the entry out of the
\* tiered statistics and asks for the segment, no upload changes nothing; the
\* entry is as NotifyFetched left it when the page read ends, unless another
\* operation on the page (a defragmentation) uploaded it
FetchNotified(o, i, released) ==
  LET ko == pending_reads_[o].key_ops[i]
      k  == ko.id[2]
      n  == NotifyFetched(World, ko.id, FetchResult(o, i).value, ko.seg,
                          FetchResult(o, i).modified)
      w  == ProcessRead(World, o, disk[o])
  IN /\ ~n.dfatal
     /\ IF ShouldUpload(o, i)
        THEN /\ n.ret
             /\ n.te = tiered_entries - 1
             /\ n.tub = tiered_used_bytes - ko.seg.len
             /\ ModifyUploads(w, k)
             /\ released => SegmentReleased(w, ko.seg)
        ELSE /\ ~n.ret
             /\ n.te = tiered_entries
             /\ n.tub = tiered_used_bytes
             /\ n.table = table
             /\ IsExternal(n.table[k])
             /\ GetExternalSlice(n.table[k]) = ko.seg
             /\ Len(pending_reads_[o].key_ops) = 1 =>
                  /\ w.table[k] = table[k]
                  /\ FillPages(ko.seg).off \in w.alloc

\* C21: when a fetch completes, the entry is uploaded into memory and its
\* segment released if and only if the fetch modified the value or reads are
\* cached and no snapshot is in progress; otherwise the entry stays EXTERNAL
\* at the same segment and the tiered statistics are unchanged.
C21_Fetch ==
  \A o \in DOMAIN pending_reads_ : \A i \in FetchOps(o) : FetchNotified(o, i, TRUE)

\* C21 without the release of the segments that the deletion takes for bin
\* segments although they were stashed as whole pages
C21_FetchUploads ==
  \A o \in DOMAIN pending_reads_ : \A i \in FetchOps(o) :
    LET ko == pending_reads_[o].key_ops[i]
    IN FetchNotified(o, i, ko.seg.off # FillPages(ko.seg).off
                           \/ OccupiesWholePages(ko.seg.len))

ExternalKeys == {k \in Keys : IsExternal(table[k])}

\* the defragmentation reads enqueued on a page
DefragReads(w, page) ==
  IF page \in DOMAIN w.reads
  THEN {i \in 1 .. Len(w.reads[page].key_ops) :
          /\ w.reads[page].key_ops[i].id = BinEntry(kFragmentedBin)
          /\ w.reads[page].key_ops[i].seg = Segment(page, kPageSize)}
  ELSE {}

\* Delete of the EXTERNAL value at k; whole tells that its segment occupies
\* whole pages. The release is looked at when no read of the page is pending
\* (a pending read defers the deletion to its completion).
DeleteExternal(k, whole) ==
  LET seg    == GetExternalSlice(table[k])
      page   == FillPages(seg).off
      w      == Delete(World, k)
      in_bin == ~whole /\ page \in DOMAIN stashed_bins_
      left   == IF in_bin THEN stashed_bins_[page].entries - 1 ELSE 0
      live   == IF in_bin THEN stashed_bins_[page].bytes - seg.len ELSE 0
  IN /\ w.table[k] = ResetCell
     /\ w.te = tiered_entries - 1
     /\ w.tub = tiered_used_bytes - seg.len
     /\ page \notin DOMAIN pending_reads_ =>
          /\ page \notin w.alloc <=> (whole \/ (in_bin /\ left = 0))
          /\ (in_bin /\ left > 0) =>
               /\ page \in w.alloc
               /\ page \in DOMAIN w.sbins
               /\ w.sbins[page].entries = left
               /\ Cardinality(DefragReads(w, page))
                    = IF 2 * live < kPageSize THEN 1 ELSE 0
          /\ (in_bin /\ left > 0 /\ 2 * live < kPageSize) =>
               Len(w.reads[page].key_ops) = 1
          /\ ~(in_bin /\ left > 0 /\ 2 * live < kPageSize) => w.reads = pending_reads_

\* the segment has its pages to itself: it was stashed on its own
AloneOnPages(seg) ==
  seg.off = FillPages(seg).off /\ FillPages(seg).off \notin DOMAIN stashed_bins_

\* C22: deleting an EXTERNAL value resets the cell and decrements the tiered
\* statistics; its pages are given back at once if and only if the segment
\* occupies whole pages or its bin is left empty; a bin left non-empty keeps
\* its page, and one left fragmented gets exactly one defragmentation read.
C22_Delete ==
  \A k \in ExternalKeys : DeleteExternal(k, AloneOnPages(GetExternalSlice(table[k])))

\* C22 with NotifyDelete's reading of "occupies whole pages": by the length
\* of the segment
C22_DeleteByLength ==
  \A k \in ExternalKeys :
    LET seg == GetExternalSlice(table[k])
    IN (AloneOnPages(seg) <=> OccupiesWholePages(seg.len))
       => DeleteExternal(k, OccupiesWholePages(seg.len))

\* the pages on which the read of a fragmented bin is pending
DefragPages ==
  {o \in DOMAIN pending_reads_ :
     \E i \in 1 .. Len(pending_reads_[o].key_ops) :
        /\ pending_reads_[o].key_ops[i].id = BinEntry(kFragmentedBin)
        /\ ~pending_reads_[o].key_ops[i].deleting}

\* the keys whose EXTERNAL value lies on the page
KeysOnPage(o) ==
  {k \in Keys : IsExternal(table[k]) /\ FillPages(GetExternalSlice(table[k])).off = o}

\* C23: when the read of a fragmented bin completes, every key that still
\* holds an EXTERNAL value in the bin's page is an in-memory string with its
\* value, the tiered statistics lose one entry and its length for each; every
\* other entry of the table is untouched; the page is freed, the bin is gone
\* and no entry references the page.
C23_Defragment ==
  \A o \in DefragPages :
    LET w == ProcessRead(World, o, disk[o])
    IN /\ \A k \in KeysOnPage(o) : ModifyUploads(w, k) /\ ~HasIoPending(w.table[k])
       /\ \A k \in Keys \ KeysOnPage(o) : w.table[k] = table[k]
       /\ w.te = tiered_entries - Cardinality(KeysOnPage(o))
       /\ w.tub = tiered_used_bytes
                    - SumOver(KeysOnPage(o), [k \in KeysOnPage(o) |-> table[k].len])
       /\ o \notin w.alloc
       /\ o \notin DOMAIN w.sbins
       /\ o \notin DOMAIN w.reads
       /\ \A k \in Keys :
            IsExternal(w.table[k]) => FillPages(GetExternalSlice(w.table[k])).off # o

\* C23 witness: the read of a fragmented bin is pending, a key still points
\* into the bin's page, and a key the bin held is EXTERNAL on another page
C23_Witness ==
  \E o \in DefragPages :
    /\ KeysOnPage(o) # {}
    /\ o \in DOMAIN stashed_bins_
    /\ Len(disk[o]) >= 1
    /\ \E i \in 1 .. disk[o][1] :
         LET k == disk[o][2 + 3 * (i - 1)]
         IN /\ k \in Keys \ KeysOnPage(o)
            /\ IsExternal(table[k])

\* C23 witness of the keys that are gone or in memory again
C23_WitnessGone ==
  \E o \in DefragPages :
    /\ KeysOnPage(o) # {}
    /\ \E k \in Keys \ KeysOnPage(o) : ~IsValid(table[k])

\* the keys the header of a bin page lists
KeysOfPage(data) ==
  IF Len(data) >= 1 THEN {data[2 + 3 * (i - 1)] : i \in 1 .. data[1]} ELSE {}

\* the write in flight is a stash of key k that was cancelled: a whole-page
\* stash whose version the entry no longer waits for, or a bin that was
\* written with the key and no longer holds it
CancelledStash(io, k) ==
  IF io.id[1] = "key" THEN io.id = KeyId(k) /\ ~IsCurrent(io)
  ELSE /\ k \in KeysOfPage(io.data)
       /\ k \notin AffectedKeys(io.id)

\* C24: CancelStash of an entry with IO_PENDING removes its pending stash
\* (the whole-page operation, or its slot in the filling or a pending bin),
\* clears IO_PENDING and leaves the value in memory and every other entry as
\* they are; the completion of a cancelled stash, with or without an error,
\* changes no entry of the key and never turns it EXTERNAL.
C24_CancelStash ==
  /\ \A k \in Keys :
       (table[k].tag = "str" /\ HasIoPending(table[k])) =>
         LET w == CancelStash(World, k)
         IN /\ KeyId(k) \notin DOMAIN w.ver
            /\ k \notin DOMAIN w.cbin
            /\ \A b \in DOMAIN w.pbins : k \notin DOMAIN w.pbins[b]
            /\ w.table = [table EXCEPT ![k] = SetIoPending(@, FALSE)]
            /\ GetString(w.table[k]) = logical[k]
            /\ w.te = tiered_entries /\ w.tub = tiered_used_bytes
  /\ \A io \in stash_io, ok \in BOOLEAN : \A k \in Keys :
       CancelledStash(io, k) =>
         LET w == StashCompletion(World, io, ok)
         IN /\ w.table[k] = table[k]
            /\ IsExternal(w.table[k]) => IsExternal(table[k])

\* C24 witness: the whole-page stash of a key was cancelled and its write is
\* still in flight, the key holds its value in memory without IO_PENDING
C24_Witness ==
  \E io \in stash_io : \E k \in Keys :
    /\ io.id = KeyId(k)
    /\ CancelledStash(io, k)
    /\ table[k].tag = "str" /\ ~HasIoPending(table[k])
    /\ GetString(table[k]) = logical[k]

\* C24 witness for a bin: a key was cancelled out of a bin whose write is in
\* flight
C24_WitnessBin ==
  \E io \in stash_io : \E k \in Keys :
    /\ io.id[1] = "bin"
    /\ CancelledStash(io, k)
    /\ table[k].tag = "str" /\ ~HasIoPending(table[k])

\* C24 witness of a second stash: the key was stashed again while the write
\* of its cancelled stash is in flight
C24_WitnessAgain ==
  \E io \in stash_io : \E k \in Keys :
    /\ CancelledStash(io, k)
    /\ table[k].tag = "str" /\ HasIoPending(table[k])

\* the disk is near capacity for RunOffloading
NearCapacity == allocated_bytes(World) + (kMaxIterations \div 2) * kPageSize > max_file_size

\* one call of RunOffloading: nothing happens during a snapshot or near
\* capacity; otherwise it ends with the write depth reached, the cursor
\* wrapped or the iteration limit hit, after at most most steps
OffloadingCall(ec, most) ==
  LET r == RunOffloading(World, offloading_cursor_, ec)
  IN /\ (snapshot_in_progress \/ NearCapacity) =>
          /\ r.steps = 0
          /\ r.cursor = offloading_cursor_
          /\ r.w = World
     /\ ~(snapshot_in_progress \/ NearCapacity) =>
          \/ pending_stash_cnt(r.w) >= write_depth_limit_
          \/ r.cursor = 0
          \/ r.steps >= most
     /\ (r.steps = 0 /\ ~(snapshot_in_progress \/ NearCapacity)) =>
          pending_stash_cnt(World) >= write_depth_limit_ /\ r.w = World
     /\ r.steps <= most

\* C25: a call of RunOffloading does nothing during a snapshot or near
\* capacity, otherwise it takes traversal steps until the write depth is
\* reached, the cursor wraps or the iteration limit is hit, and never more
\* than kMaxIterations steps.
C25_Offloading == \A ec \in BOOLEAN : OffloadingCall(ec, kMaxIterations)

\* C25 with the bound the loop keeps: one step more than kMaxIterations
C25_OffloadingPlusOne == \A ec \in BOOLEAN : OffloadingCall(ec, kMaxIterations + 1)

\* the keys a write in flight was made for
StashedKeys(io) == IF io.id[1] = "key" THEN {io.id[2]} ELSE KeysOfPage(io.data)

\* the prime table without the entries of the keys ks, the tiered storage
\* not having been told
Erased(w, ks) ==
  [w EXCEPT !.table = [k \in Keys |-> IF k \in ks THEN NoCell ELSE w.table[k]]]

\* C27: when a key was deleted from the prime table while its stash is in
\* flight, the completion of the stash, with or without an error, leaves the
\* key absent and changes no table entry and no tiered statistic on its
\* account: a write made for absent keys only changes no entry and no
\* statistic at all, whether the storage was told of the deletion or finds
\* the keys absent by its lookup.
C27_DeletedInFlight ==
  \A io \in stash_io, ok \in BOOLEAN :
    /\ \A k \in StashedKeys(io) :
         ~IsValid(table[k]) =>
           LET w == StashCompletion(World, io, ok)
           IN /\ w.table[k] = NoCell
              /\ (\A j \in StashedKeys(io) : ~IsValid(table[j])) =>
                    /\ w.table = table
                    /\ w.te = tiered_entries
                    /\ w.tub = tiered_used_bytes
    /\ \A ks \in SUBSET StashedKeys(io) :
         LET w0 == Erased(World, ks)
             w  == StashCompletion(w0, io, ok)
         IN /\ \A k \in ks : w.table[k] = NoCell
            /\ ks = StashedKeys(io) =>
                  /\ w.table = w0.table
                  /\ w.te = tiered_entries
                  /\ w.tub = tiered_used_bytes

\* C27 witness: a key is absent from the table and the write of its stash is
\* still in flight
C27_Witness ==
  \E io \in stash_io : \E k \in StashedKeys(io) : ~IsValid(table[k])

\* C27 witness of the lookup: the write in flight is the current stash of
\* keys that wait for it, so that only the lookup tells that a key is gone
C27_WitnessCurrent ==
  \E io \in stash_io :
    /\ AffectedKeys(io.id) # {}
    /\ io.id[1] = "key" => IsCurrent(io)
    /\ \A k \in AffectedKeys(io.id) : IsValid(table[k]) /\ HasIoPending(table[k])

\* the entry of key k turns EXTERNAL in this step
TurnsExternal(k) == ~IsExternal(table[k]) /\ IsExternal(table'[k])

\* this step is the successful completion of the current stash io of key k:
\* the write leaves the queue, its page is on the disk, and the segment the
\* entry now names holds the bytes the entry held in memory
StashedBy(io, k) ==
  /\ io \notin stash_io'
  /\ disk'[io.off] = io.data
  /\ k \in AffectedKeys(io.id)
  /\ io.id[1] = "key" => IsCurrent(io)
  /\ table'[k].off \in io.off .. io.off + kPageSize - 1
  /\ PageSubstr(io.data, table'[k].off - io.off, table'[k].len) = GetRawString(table[k])
  /\ table'[k].enc = table[k].enc

\* C28: an entry becomes EXTERNAL only through the successful completion of
\* a stash, applied to an entry that has IO_PENDING at that moment and holds
\* the value that was stashed; no entry is ever both EXTERNAL and IO_PENDING.
C28_ExternalByStash ==
  /\ [](\A k \in Keys : ~(IsExternal(table[k]) /\ HasIoPending(table[k])))
  /\ [][\A k \in Keys :
         TurnsExternal(k) =>
           /\ table[k].tag = "str"
           /\ HasIoPending(table[k])
           /\ GetString(table[k]) = logical[k]
           /\ \E io \in stash_io : StashedBy(io, k)]_vars

\* C28 witness: an entry is EXTERNAL and the page of its segment holds the
\* bytes of its value
C28_Witness ==
  \E k \in Keys :
    /\ IsExternal(table[k])
    /\ ~HasIoPending(table[k])
    /\ logical[k] # << >>
    /\ \E o \in DOMAIN disk :
         /\ table[k].off \in o .. o + kPageSize - 1
         /\ PageSubstr(disk[o], table[k].off - o, table[k].len) = EncodeString(logical[k])

\* C5: tiered_entries is the number of EXTERNAL entries and
\* tiered_used_bytes the sum of their segment lengths.
C5_TieredStats ==
  /\ tiered_entries = Cardinality(ExternalKeys)
  /\ tiered_used_bytes = SumOver(ExternalKeys, [k \in ExternalKeys |-> table[k].len])

\* C5 witness: after an upload by a fetch, other entries are still EXTERNAL
C5_Witness ==
  /\ resolved # << >>
  /\ tiered_entries >= 1
  /\ tiered_used_bytes > 0
  /\ \E k \in Keys : table[k].tag = "str" /\ GetString(table[k]) # << >> /\ num_writes > 0

(***************************************************************************)
(* Journal streamer: the bounded in-flight window and its throttle.        *)
(* Time is counted in ticks; a tick never passes a deadline that is due.   *)
(***************************************************************************)
replication_stream_timeout == 2

replication_stream_output_limit_cached == 3

kFlushThreshold == 2

MaxItems == 2

ItemSizes == {1, 2}

Streamer ==
  [in_flight |-> in_flight_bytes_, pending |-> pending_buf_, writes |-> async_writes,
   cntx |-> cntx_, waker |-> waker_]

CommitJ(j) ==
  /\ in_flight_bytes_' = j.in_flight
  /\ pending_buf_' = j.pending
  /\ async_writes' = j.writes
  /\ cntx_' = j.cntx
  /\ waker_' = j.waker
  /\ UNCHANGED nonJournal

IsStopped(j) == j.cntx.stopped

IsStalledStrict(j) == j.in_flight > replication_stream_output_limit_cached

IsStalled(j) == j.in_flight >= replication_stream_output_limit_cached

\* Context::ReportError keeps the first error and cancels the context
ReportError(j, ec) ==
  IF j.cntx.error # "none" THEN j
  ELSE [j EXCEPT !.cntx = [stopped |-> TRUE, error |-> ec]]

AsyncWrite(j, len) == [j EXCEPT !.writes = Append(@, len)]

notifyAll(j) == [j EXCEPT !.waker = {f \in Fibers : fiber[f].pc = "waiting"}]

\* Write that counts the new string alone as in flight
WriteCountsStr(j, len) ==
  IF j.in_flight = 0 \/ j.pending + len > kFlushThreshold
  THEN AsyncWrite([j EXCEPT !.in_flight = @ + len, !.pending = 0], j.pending + len)
  ELSE [j EXCEPT !.pending = @ + len]

\* JournalStreamer::Write
Write(j, len) ==
  IF j.in_flight = 0 \/ j.pending + len > kFlushThreshold
  THEN AsyncWrite([j EXCEPT !.in_flight = @ + j.pending + len, !.pending = 0],
                  j.pending + len)
  ELSE [j EXCEPT !.pending = @ + len]

FlushPending(j) ==
  IF j.in_flight = 0 /\ j.pending # 0 /\ ~IsStopped(j)
  THEN AsyncWrite([j EXCEPT !.in_flight = @ + j.pending, !.pending = 0], j.pending)
  ELSE j

OnCompletion(j, ec, len) ==
  Bind([j EXCEPT !.in_flight = @ - len], LAMBDA j1 :
    notifyAll(IF ec /\ ~IsStopped(j1) THEN ReportError(j1, "io_error")
              ELSE FlushPending(j1)))

\* the condition ThrottleIfNeeded waits for
ThrottlePred(j) == ~IsStalled(j) \/ IsStopped(j)

\* ThrottleIfNeeded returns: the callback goes on to Write its item
Returned(f, how) ==
  fiber' = [fiber EXCEPT ![f] = [@ EXCEPT !.pc = "idle", !.waited = 0, !.item = 0,
                                          !.last = how, !.returns = @ + 1]]

\* the journal change callback registered by Start, for an item that is
\* written: ThrottleIfNeeded when it may wait, then Write
JournalChange(f, len, allow_await) ==
  /\ fiber[f].pc = "idle"
  /\ fiber[f].items < MaxItems
  /\ IF ~allow_await
     THEN /\ CommitJ(Write(Streamer, len))
          /\ fiber' = [fiber EXCEPT ![f].items = @ + 1]
     ELSE IF IsStopped(Streamer) \/ ~IsStalled(Streamer)
     THEN /\ CommitJ(Write(Streamer, len))
          /\ fiber' = [fiber EXCEPT ![f] = [@ EXCEPT !.items = @ + 1, !.last = "at_once",
                                                     !.returns = @ + 1]]
     ELSE /\ CommitJ(Streamer)
          /\ fiber' = [fiber EXCEPT ![f] = [@ EXCEPT !.items = @ + 1, !.pc = "waiting",
                                                     !.waited = 0, !.item = len]]

\* a notified fiber evaluates the condition again
WakeUp(f) ==
  /\ fiber[f].pc = "waiting"
  /\ f \in waker_
  /\ IF ThrottlePred(Streamer)
     THEN /\ CommitJ(Write([Streamer EXCEPT !.waker = @ \ {f}], fiber[f].item))
          /\ Returned(f, "no_timeout")
     ELSE /\ CommitJ([Streamer EXCEPT !.waker = @ \ {f}])
          /\ UNCHANGED fiber

\* the deadline of await_until passes: cv_status::timeout, or no_timeout when
\* the condition turned true at the same moment
DeadlineFires(f, timeout) ==
  /\ fiber[f].pc = "waiting"
  /\ fiber[f].waited >= replication_stream_timeout
  /\ ~timeout => ThrottlePred(Streamer)
  /\ \E j \in {IF timeout THEN ReportError(Streamer, "stream_timeout") ELSE Streamer} :
       CommitJ(Write([j EXCEPT !.waker = @ \ {f}], fiber[f].item))
  /\ Returned(f, IF timeout THEN "timeout" ELSE "no_timeout")

Tick ==
  /\ \E f \in Fibers : fiber[f].pc = "waiting"
  /\ \A f \in Fibers : fiber[f].pc = "waiting" => fiber[f].waited < replication_stream_timeout
  /\ fiber' = [f \in Fibers |->
                 IF fiber[f].pc = "waiting" THEN [fiber[f] EXCEPT !.waited = @ + 1]
                 ELSE fiber[f]]
  /\ CommitJ(Streamer)

\* a socket write completes, with or without an error
SocketDone(ec) ==
  /\ async_writes # << >>
  /\ CommitJ(OnCompletion([Streamer EXCEPT !.writes = Tail(@)], ec, Head(async_writes)))
  /\ UNCHANGED fiber

\* the flow is cancelled from outside
ContextCancel ==
  /\ ~cntx_.stopped
  /\ CommitJ([Streamer EXCEPT !.cntx.stopped = TRUE])
  /\ UNCHANGED fiber

\* JournalStreamer::Cancel notifies the waiting fibers
StreamerCancel ==
  /\ cntx_.stopped
  /\ waker_ # notifyAll(Streamer).waker
  /\ CommitJ(notifyAll(Streamer))
  /\ UNCHANGED fiber

NextThrottle ==
  \/ \E f \in Fibers, len \in ItemSizes, allow_await \in BOOLEAN :
       JournalChange(f, len, allow_await)
  \/ \E f \in Fibers : WakeUp(f)
  \/ \E f \in Fibers, timeout \in BOOLEAN : DeadlineFires(f, timeout)
  \/ Tick
  \/ \E ec \in BOOLEAN : SocketDone(ec)
  \/ ContextCancel
  \/ StreamerCancel

\* C9: ThrottleIfNeeded returns at once when the in-flight bytes are below
\* the output limit or the context is stopped; otherwise the caller is
\* suspended and returns only once the bytes are below the limit or the
\* context is stopped, or at its deadline, replication_stream_timeout later,
\* with the stream_timeout error reported.
C9_Throttle ==
  [][\A f \in Fibers :
       /\ fiber'[f].returns # fiber[f].returns =>
            IF fiber[f].pc = "idle"
            THEN /\ cntx_.stopped \/ in_flight_bytes_ < replication_stream_output_limit_cached
                 /\ cntx_' = cntx_
            ELSE \/ in_flight_bytes_ < replication_stream_output_limit_cached
                 \/ cntx_.stopped
                 \/ /\ fiber[f].waited = replication_stream_timeout
                    /\ cntx_'.error = "stream_timeout"
       /\ (fiber[f].pc = "idle" /\ fiber'[f].pc = "waiting") =>
            (~cntx_.stopped /\ in_flight_bytes_ >= replication_stream_output_limit_cached)
       /\ fiber'[f].waited <= replication_stream_timeout]_vars

\* C9 witness: a caller that was suspended has timed out while the stream
\* was still stalled, and the streamer reported stream_timeout
C9_Witness ==
  \E f \in Fibers :
    /\ fiber[f].last = "timeout"
    /\ cntx_.error = "stream_timeout"
    /\ in_flight_bytes_ >= replication_stream_output_limit_cached

\* a suspended caller was woken by a completion that brought the bytes down
C9_WitnessWoken ==
  \E f \in Fibers : fiber[f].last = "no_timeout" /\ ~cntx_.stopped

\* ------------------------------------------------------------------------
\* The bytes of the stream. A byte is named by its place among the bytes
\* passed to Write.
MaxStream == 2 * MaxItems + 2

\* the next len bytes passed to Write
NextBytes(st, len) == [i \in 1 .. len |-> Len(st.written) + i]

\* Write that puts the new string before the aggregated bytes
WriteBytesStrFirst(j, st, str) ==
  IF j.in_flight = 0 \/ j.pending + Len(str) > kFlushThreshold
  THEN [written |-> st.written \o str, pending |-> << >>,
        handed |-> st.handed \o str \o st.pending]
  ELSE [st EXCEPT !.written = @ \o str, !.pending = @ \o str]

\* JournalStreamer::Write, the bytes: pending_buf_ and then the string go
\* to the socket in one write, or the string is appended to pending_buf_
WriteBytes(j, st, str) ==
  IF j.in_flight = 0 \/ j.pending + Len(str) > kFlushThreshold
  THEN [written |-> st.written \o str, pending |-> << >>,
        handed |-> st.handed \o st.pending \o str]
  ELSE [st EXCEPT !.written = @ \o str, !.pending = @ \o str]

\* JournalStreamer::OnCompletion, the bytes: pending_buf_ goes to the
\* socket when nothing is in flight any more
CompletionBytes(j, st, ec, len) ==
  IF ~(ec /\ ~IsStopped(j)) /\ j.in_flight - len = 0 /\ j.pending # 0 /\ ~IsStopped(j)
  THEN [st EXCEPT !.pending = << >>, !.handed = @ \o st.pending]
  ELSE st

CommitS(j, st) ==
  /\ in_flight_bytes_' = j.in_flight
  /\ pending_buf_' = j.pending
  /\ async_writes' = j.writes
  /\ cntx_' = j.cntx
  /\ waker_' = j.waker
  /\ stream' = st
  /\ UNCHANGED << restore, driver >>
  /\ UNCHANGED << tvars, hvars, zvars, rvars, evars, fiber >>

\* the journal change callback writes an item
StreamWrite(len) ==
  /\ Len(stream.written) + len <= MaxStream
  /\ CommitS(Write(Streamer, len), WriteBytes(Streamer, stream, NextBytes(stream, len)))

\* a socket write completes, with or without an error
StreamDone(ec) ==
  /\ async_writes # << >>
  /\ CommitS(OnCompletion([Streamer EXCEPT !.writes = Tail(@)], ec, Head(async_writes)),
             CompletionBytes(Streamer, stream, ec, Head(async_writes)))

\* the flow is cancelled from outside
StreamStop ==
  /\ ~cntx_.stopped
  /\ CommitS([Streamer EXCEPT !.cntx.stopped = TRUE], stream)

NextStream ==
  \/ \E len \in ItemSizes : StreamWrite(len)
  \/ \E ec \in BOOLEAN : StreamDone(ec)
  \/ StreamStop

\* the socket completes every write it was handed
StreamFairness == WF_vars(\E ec \in BOOLEAN : StreamDone(ec))

RECURSIVE SumOf(_)
SumOf(seq) == IF seq = << >> THEN 0 ELSE Head(seq) + SumOf(Tail(seq))

\* C35: in every reachable state of a JournalStreamer in_flight_bytes_ is
\* the total length of the socket writes that were issued and have not
\* completed, a completion never subtracts more than is in flight, and
\* pending_buf_ never holds more than kFlushThreshold.
C35_InFlightBytes ==
  /\ [](/\ in_flight_bytes_ = SumOf(async_writes)
        /\ pending_buf_ <= kFlushThreshold)
  /\ [][Len(async_writes') < Len(async_writes) =>
          /\ Head(async_writes) <= in_flight_bytes_
          /\ in_flight_bytes_' >= in_flight_bytes_ - Head(async_writes)]_vars

\* C35 witness: two writes are in flight, the second with the aggregated
\* bytes, and pending_buf_ is full again
C35_Witness ==
  /\ Len(async_writes) = 2
  /\ async_writes[2] > kFlushThreshold
  /\ in_flight_bytes_ = async_writes[1] + async_writes[2]
  /\ pending_buf_ = kFlushThreshold

\* a completion has flushed pending_buf_ with a write of its own
C35_WitnessFlushed ==
  /\ Len(async_writes) = 1
  /\ in_flight_bytes_ = kFlushThreshold
  /\ pending_buf_ = 0
  /\ \E f \in Fibers : fiber[f].items = MaxItems

\* C36: while the streamer is neither stopped nor in error every byte
\* passed to Write is eventually handed to the socket, exactly once and in
\* the order of the Writes: the bytes aggregated in pending_buf_ go out
\* before any later byte, and whenever pending_buf_ is not empty a write is
\* in flight whose completion flushes it.
C36_StreamOrder ==
  /\ [](/\ stream.handed \o stream.pending = stream.written
        /\ Len(stream.pending) = pending_buf_
        /\ (pending_buf_ # 0 /\ ~cntx_.stopped) => async_writes # << >>)
  /\ [][(/\ pending_buf_ # 0 /\ Len(async_writes) = 1
          /\ stream'.written = stream.written
          /\ cntx_' = cntx_ /\ ~cntx_.stopped)
          => (/\ async_writes' = << pending_buf_ >>
              /\ stream'.handed = stream.handed \o stream.pending)]_vars
  /\ \A n \in 1 .. MaxStream :
       (Len(stream.written) >= n) ~> (Len(stream.handed) >= n \/ cntx_.stopped)

\* C36 witness: three bytes went out at once, two more wait in pending_buf_
\* behind the write in flight, and the streamer runs
C36_Witness ==
  /\ ~cntx_.stopped
  /\ stream.handed = << 1, 2, 3 >>
  /\ stream.pending = << 4, 5 >>
  /\ Len(async_writes) = 1

\* the completion of the last write has flushed pending_buf_
C36_WitnessFlushed ==
  /\ ~cntx_.stopped
  /\ stream.handed = << 1, 2, 3 >>
  /\ stream.pending = << >>
  /\ async_writes = << 2 >>

(***************************************************************************)
(* Slot migration (RestoreStreamer): the traversal of the table, the        *)
(* callback that runs before a change, and Start, Run and Cancel            *)
(***************************************************************************)
MaxMutations == 2

\* the slot of a key is the key; the slots that migrate
my_slots_ == {1, 3, 4}

ShouldWrite(key) == key \in my_slots_

\* the live entries of a bucket, in the order of the bucket
RECURSIVE EntriesOf(_, _, _)
EntriesOf(r, b, k) ==
  IF k \notin RKeys THEN << >>
  ELSE (IF BucketOf(k) = b /\ r.table[k] # 0 /\ ShouldWrite(k)
        THEN << << k, r.table[k] >> >> ELSE << >>) \o EntriesOf(r, b, k + 1)

\* WriteBucket that does not stamp the bucket
WriteBucketNoStamp(r, b) ==
  IF r.version[b] < r.snapshot_version_
  THEN [r EXCEPT !.serialized = @ \o EntriesOf(r, b, 1)]
  ELSE r

\* RestoreStreamer::WriteBucket
WriteBucket(r, b) ==
  IF r.version[b] < r.snapshot_version_
  THEN [r EXCEPT !.version[b] = r.snapshot_version_,
                 !.serialized = @ \o EntriesOf(r, b, 1)]
  ELSE r

\* RestoreStreamer::OnDbChange: the bucket of the entry that changes, or
\* the bucket CVCUponInsert finds for the key that is inserted
OnDbChange(r, key) == WriteBucket(r, BucketOf(key))

\* DbSlice calls every registered change callback before it changes the
\* entry: an update, a deletion or an insertion
DbChange(key, del) ==
  /\ ~restore.aborted
  /\ restore.mutations < MaxMutations
  /\ del => restore.table[key] # 0
  /\ restore' =
       Bind(IF restore.db_cb # {} THEN OnDbChange(restore, key) ELSE restore, LAMBDA r :
         [r EXCEPT !.mutations = @ + 1,
                   !.table[key] = IF del THEN 0 ELSE r.mutations + 2])
  /\ UNCHANGED << tvars, jvars, hvars, zvars, rvars, evars, stream, driver >>

\* DbSlice::RegisterOnChange: the callback gets the next version
RegisterOnChange(r) ==
  [r EXCEPT !.db_cb = @ \cup {r.next_version}, !.next_version = @ + 1,
            !.snapshot_version_ = r.next_version]

\* JournalStreamer::Start: CHECK(dest_ == nullptr), then the journal
\* callback is registered
JournalStart(r) ==
  IF r.dest_ THEN [r EXCEPT !.aborted = TRUE]
  ELSE [r EXCEPT !.dest_ = TRUE, !.journal_cb = TRUE]

\* RestoreStreamer::Start
RestoreStartCall ==
  /\ ~restore.aborted
  /\ restore' =
       IF restore.fiber_cancelled_ THEN restore
       ELSE JournalStart([RegisterOnChange(restore) EXCEPT
                            !.at_start = IF restore.dest_ THEN @ ELSE restore.table])
  /\ UNCHANGED << tvars, jvars, hvars, zvars, rvars, evars, stream, driver >>

\* RestoreStreamer::Run, one turn of its loop: the test of
\* fiber_cancelled_, then Traverse over the bucket at the cursor
RestoreRun ==
  /\ ~restore.aborted
  /\ restore.run \in {"idle", "loop"}
  /\ restore' =
       Bind(IF restore.run = "idle"
            THEN [restore EXCEPT !.run_started = restore.snapshot_version_ # 0]
            ELSE restore, LAMBDA r :
         IF r.fiber_cancelled_ THEN [r EXCEPT !.run = "returned"]
         ELSE [WriteBucket(r, r.cursor + 1) EXCEPT
                 !.cursor = IF r.cursor + 2 \in RBuckets THEN r.cursor + 1 ELSE 0,
                 !.run = IF r.cursor + 2 \in RBuckets THEN "loop" ELSE "done"])
  /\ UNCHANGED << tvars, jvars, hvars, zvars, rvars, evars, stream, driver >>

\* Cancel that keeps snapshot_version_
CancelEnterKeepsVersion(r, f) ==
  [r EXCEPT !.fiber_cancelled_ = TRUE,
            !.cancel[f] = [pc |-> IF r.snapshot_version_ # 0 THEN "db" ELSE "returned",
                           sver |-> r.snapshot_version_]]

\* RestoreStreamer::Cancel up to UnregisterOnChange
CancelEnter(r, f) ==
  [r EXCEPT !.snapshot_version_ = 0, !.fiber_cancelled_ = TRUE,
            !.cancel[f] = [pc |-> IF r.snapshot_version_ # 0 THEN "db" ELSE "returned",
                           sver |-> r.snapshot_version_]]

\* db_slice_->UnregisterOnChange(sver)
CancelUnregisterDb(r, f) ==
  [r EXCEPT !.db_cb = @ \ {r.cancel[f].sver}, !.db_unreg = @ + 1,
            !.unreg_early = @ \/ r.cancel[f].sver \notin r.db_cb,
            !.cancel[f].pc = "journal"]

\* JournalStreamer::Cancel: the journal callback is unregistered, then the
\* writes in flight are waited for
CancelJournal(r, f) ==
  [r EXCEPT !.journal_cb = FALSE, !.journal_unreg = @ + 1,
            !.unreg_early = @ \/ ~r.journal_cb,
            !.cancel[f].pc = "returned"]

\* RestoreStreamer::Cancel of a fiber, from where it stands
RestoreCancel(f) ==
  /\ ~restore.aborted
  /\ restore.cancel[f].pc # "returned"
  /\ restore' = CASE restore.cancel[f].pc = "idle" -> CancelEnter(restore, f)
                   [] restore.cancel[f].pc = "db" -> CancelUnregisterDb(restore, f)
                   [] restore.cancel[f].pc = "journal" -> CancelJournal(restore, f)
  /\ UNCHANGED << tvars, jvars, hvars, zvars, rvars, evars, stream, driver >>

NextRestore ==
  \/ \E key \in RKeys, del \in BOOLEAN : DbChange(key, del)
  \/ RestoreStartCall
  \/ RestoreRun
  \/ \E f \in {1, 2} : RestoreCancel(f)

\* ------------------------------------------------------------------------
\* Properties of the slot migration
\* the places of key in the serialized entries
WrittenAt(key) ==
  {i \in 1 .. Len(restore.serialized) : restore.serialized[i][1] = key}

\* C37: during a slot migration every entry of an owned slot that exists
\* when the RestoreStreamer starts is serialized exactly once, with the
\* content it had then: a bucket is written only while its version is below
\* snapshot_version_ and is stamped with it, by the traversal or by the
\* callback that runs before the change, whichever comes first; entries
\* of other slots are never written.
C37_SerializedOnce ==
  /\ [](/\ \A i \in 1 .. Len(restore.serialized) :
             /\ ShouldWrite(restore.serialized[i][1])
             /\ restore.serialized[i][2] = restore.at_start[restore.serialized[i][1]]
             /\ restore.serialized[i][2] # 0
        /\ \A key \in RKeys : Cardinality(WrittenAt(key)) <= 1
        /\ (restore.run = "done" /\ restore.run_started) =>
             \A key \in RKeys : (ShouldWrite(key) /\ restore.at_start[key] # 0) =>
               Cardinality(WrittenAt(key)) = 1)
  /\ [][restore'.serialized # restore.serialized =>
          \E b \in RBuckets :
            /\ restore.version[b] < restore.snapshot_version_
            /\ restore'.version[b] = restore.snapshot_version_
            /\ restore'.serialized = restore.serialized \o EntriesOf(restore, b, 1)]_vars

\* C37 witness: the callback wrote the entry of key 3 before the key was
\* deleted, the traversal wrote the bucket of keys 1 and 2, and Run is done
C37_Witness ==
  /\ restore.run = "done" /\ restore.run_started
  /\ restore.serialized = << << 3, 1 >>, << 1, 1 >> >>
  /\ restore.table[3] = 0
  /\ restore.table[4] # 0

\* C38: however Start, Run and Cancel of different fibers interleave, the
\* db-change callback and the journal callback are each unregistered at
\* most once and only after they were registered; a Start after Cancel
\* registers nothing, and Run stops traversing once Cancel was called.
C38_CancelOnce ==
  /\ [](/\ restore.db_unreg <= 1
        /\ restore.journal_unreg <= 1
        /\ ~restore.unreg_early)
  /\ [][restore.fiber_cancelled_ =>
          /\ restore'.db_cb \subseteq restore.db_cb
          /\ restore'.journal_cb => restore.journal_cb
          /\ restore'.next_version = restore.next_version
          /\ restore'.cursor = restore.cursor
          /\ restore'.serialized = restore.serialized]_vars

\* C38 witness: two fibers have cancelled a migration that was started and
\* half run; each callback was unregistered once and Run has returned
C38_Witness ==
  /\ \A f \in {1, 2} : restore.cancel[f].pc = "returned"
  /\ restore.db_unreg = 1 /\ restore.journal_unreg = 1
  /\ restore.run = "returned" /\ restore.cursor = 1
  /\ restore.dest_

\* the second Cancel went in while the first stood before its unregistration
C38_WitnessDouble ==
  /\ restore.cancel[1].pc = "db"
  /\ restore.cancel[2].pc = "returned"
  /\ restore.cancel[2].sver = 0
  /\ restore.dest_

(***************************************************************************)
(* Load generator (Driver): the fiber that sends the requests, the fiber   *)
(* that receives the responses, and the server at the other end            *)
(***************************************************************************)
num_reqs == 4

CommitD(d) ==
  /\ driver' = d
  /\ UNCHANGED << tvars, jvars, hvars, zvars, rvars, evars, stream, restore >>

\* Driver::Run, one turn of the send loop: the request is queued, then the
\* command is written; a write to a closed connection ends the loop
DriverSend ==
  /\ driver.pc = "send"
  /\ CommitD(IF driver.i = num_reqs THEN [driver EXCEPT !.pc = "wait"]
             ELSE IF driver.socket # "open"
             THEN [driver EXCEPT !.reqs_ = @ + 1, !.pc = "wait"]
             ELSE [driver EXCEPT !.reqs_ = @ + 1, !.i = @ + 1, !.to_server = @ + 1])

\* Driver::Run after the loop: it sleeps until reqs_ is empty, then shuts
\* the socket down
DriverWait ==
  /\ driver.pc = "wait"
  /\ driver.reqs_ = 0
  /\ CommitD([driver EXCEPT !.pc = "join",
                            !.socket = IF @ = "open" THEN "shutdown" ELSE @])

\* receive_fb.Join() and Close
DriverJoin ==
  /\ driver.pc = "join"
  /\ driver.receive_fb = "done"
  /\ CommitD([driver EXCEPT !.pc = "returned"])

\* Driver::PopRequest; the front of an empty queue is read when a response
\* comes with no request queued
PopRequest(d) ==
  IF d.reqs_ = 0 THEN [d EXCEPT !.popped_empty = TRUE, !.num_responses = @ + 1]
  ELSE [d EXCEPT !.reqs_ = @ - 1, !.num_responses = @ + 1]

\* Driver::ReceiveFb, one Recv: a response is parsed and its request
\* popped, or the connection is closed and the fiber ends
ReceiveFb ==
  /\ driver.receive_fb = "running"
  /\ \/ /\ driver.to_client > 0
        /\ driver.socket # "shutdown"
        /\ CommitD(PopRequest([driver EXCEPT !.to_client = @ - 1]))
     \/ /\ driver.to_client = 0 \/ driver.socket = "shutdown"
        /\ driver.socket # "open"
        /\ CommitD([driver EXCEPT !.receive_fb = "done"])

\* the server answers the next command it was sent
ServerReply ==
  /\ driver.socket = "open"
  /\ driver.to_server > 0
  /\ CommitD([driver EXCEPT !.to_server = @ - 1, !.to_client = @ + 1])

\* the peer closes the connection; what it has sent can still be read
PeerClose ==
  /\ driver.socket = "open"
  /\ CommitD([driver EXCEPT !.socket = "peer_closed", !.to_server = 0])

NextDriver ==
  \/ DriverSend
  \/ DriverWait
  \/ DriverJoin
  \/ ReceiveFb
  \/ ServerReply
  \/ PeerClose

\* the fibers are scheduled and the server answers what it was sent
DriverFairness ==
  /\ WF_vars(DriverSend) /\ WF_vars(DriverWait) /\ WF_vars(DriverJoin)
  /\ WF_vars(ReceiveFb) /\ WF_vars(ServerReply)

\* C39: Driver::Run always terminates: after the send loop it returns once
\* every queued request has met its response, and it returns as well when
\* the peer closes the connection while requests are outstanding; a
\* request is queued before its command is written, so no response is
\* processed against an empty queue.
C39_RunTerminates ==
  /\ <>(driver.pc = "returned")
  /\ [](~driver.popped_empty)

\* Run returns unless the peer closes the connection, no response meets an
\* empty queue, and the queue holds a request for every command and every
\* response under way
C39_TerminatesIfOpen ==
  /\ <>(driver.pc = "returned" \/ driver.socket = "peer_closed")
  /\ [](/\ ~driver.popped_empty
        /\ driver.reqs_ >= driver.to_server + driver.to_client)

\* once the peer has closed the connection with a request outstanding,
\* Run never returns
C39_HangsWhenClosed ==
  []((driver.socket = "peer_closed" /\ driver.reqs_ > driver.to_client)
       => [](driver.pc # "returned"))

\* the peer has closed the connection, the receive fiber has ended and Run
\* sleeps on a queue that is not empty
C39_Witness ==
  /\ driver.pc = "wait"
  /\ driver.socket = "peer_closed"
  /\ driver.receive_fb = "done"
  /\ driver.reqs_ > 0

(***************************************************************************)
(* Hash commands. Strings are sequences of character codes; a listpack is  *)
(* the sequence of its entries, field and value alternating; a StringMap   *)
(* is the sequence of its entries in iteration order.                      *)
(***************************************************************************)
max_map_field_len == 2

max_listpack_map_bytes == 16

kLpHeaderBytes == 7

MaxCmds == 3

HFields == {<< >>, <<49>>, <<48, 49>>}

HVals == {<<49>>, <<49, 48>>, <<97, 98, 99>>}

\* the fields and increments of HINCRBY, one field longer than the limit
HIncrFields == {<<49>>, <<102, 102, 102>>}

HIncrs == {1, 100}

\* the TTLs of HSETEX, in seconds; 0 is refused
HTtls == {0, 1, 2}

\* the seconds the clock of the model runs for
MaxTime == 2

\* OpSetParams::ttl of a write without TTL, scaled to 8 bits
UINT32_MAX == 255

\* the largest TTL HSETEX takes, scaled
kMaxTtl == 64

\* the bounds of long long, scaled to 8 bits
LLONG_MAX == 127

LLONG_MIN == 0 - 128

IsDigit(c) == c \in 48 .. 57

\* a decimal number in its canonical form, without a sign
IsCanonicalNat(str) ==
  /\ Len(str) >= 1
  /\ \A i \in 1 .. Len(str) : IsDigit(str[i])
  /\ Len(str) > 1 => str[1] # 48

\* string2ll: a decimal number in its canonical form; "-0" is none
IsCanonicalInt(str) ==
  IF Len(str) >= 1 /\ str[1] = 45
  THEN IsCanonicalNat(Tail(str)) /\ Tail(str) # << 48 >>
  ELSE IsCanonicalNat(str)

RECURSIVE StrToInt(_)
StrToInt(str) ==
  IF str = << >> THEN 0
  ELSE IF str[1] = 45 THEN 0 - StrToInt(Tail(str))
  ELSE 10 * StrToInt(SubSeq(str, 1, Len(str) - 1)) + (str[Len(str)] - 48)

RECURSIVE IntToStr(_)
IntToStr(n) ==
  IF n < 0 THEN << 45 >> \o IntToStr(0 - n)
  ELSE IF n < 10 THEN << 48 + n >> ELSE IntToStr(n \div 10) \o << 48 + (n % 10) >>

\* lpAppend / lpReplace encode a canonical number as an integer entry
lpEntry(str) ==
  IF IsCanonicalInt(str) THEN [int |-> TRUE, n |-> StrToInt(str), s |-> << >>]
  ELSE [int |-> FALSE, n |-> 0, s |-> str]

LpGetView(e) == IF e.int THEN IntToStr(e.n) ELSE e.s

lpEntryBytes(e) == IF e.int THEN (IF e.n \in 0 .. 127 THEN 2 ELSE 3) ELSE Len(e.s) + 2

lpBytes(lp) ==
  kLpHeaderBytes + SumOver(1 .. Len(lp), [i \in 1 .. Len(lp) |-> lpEntryBytes(lp[i])])

lpMatches(e, str) ==
  IF e.int THEN IsCanonicalInt(str) /\ StrToInt(str) = e.n ELSE e.s = str

\* lpFind with skip = 1: the first field entry equal to str, 0 when none
lpFind(lp, str) ==
  Bind({i \in 1 .. Len(lp) : i % 2 = 1 /\ lpMatches(lp[i], str)}, LAMBDA S :
    IF S = {} THEN 0 ELSE CHOOSE i \in S : \A j \in S : i <= j)

\* container_utils::LpFind: the value of a field
LpFind(lp, field) ==
  Bind(lpFind(lp, field), LAMBDA i :
    IF i = 0 THEN [found |-> FALSE, val |-> << >>]
    ELSE [found |-> TRUE, val |-> LpGetView(lp[i + 1])])

LpInsertAppendOnly(lp, field, val, skip_exists) ==
  [lp |-> lp \o << lpEntry(field), lpEntry(val) >>, inserted |-> TRUE]

LpInsert(lp, field, val, skip_exists) ==
  Bind(lpFind(lp, field), LAMBDA i :
    IF i # 0
    THEN IF skip_exists THEN [lp |-> lp, inserted |-> FALSE]
         ELSE [lp |-> [lp EXCEPT ![i + 1] = lpEntry(val)], inserted |-> FALSE]
    ELSE [lp |-> lp \o << lpEntry(field), lpEntry(val) >>, inserted |-> TRUE])

smFind(sm, field) ==
  Bind({i \in 1 .. Len(sm) : sm[i].f = field}, LAMBDA S :
    IF S = {} THEN 0 ELSE CHOOSE i \in S : TRUE)

\* an entry whose expiry time has come; ttl is the second it expires at
Expired(e, now) == e.ttl # UINT32_MAX /\ e.ttl <= now

\* a probe for a field collects its entry when it has expired
smProbe(sm, field, now) == SelectSeq(sm, LAMBDA e : ~(e.f = field /\ Expired(e, now)))

\* the expiry time StringMap keeps for a TTL given in seconds
smExpiry(ttl, now) == IF ttl = UINT32_MAX THEN UINT32_MAX ELSE now + ttl

\* StringMap::AddOrUpdate and AddOrSkip
smAdd(sm, field, val, ttl, skip_exists, now) ==
  Bind(smFind(smProbe(sm, field, now), field), LAMBDA i :
    IF i # 0
    THEN IF skip_exists THEN [sm |-> smProbe(sm, field, now), added |-> FALSE]
         ELSE [sm |-> [smProbe(sm, field, now) EXCEPT
                         ![i] = [f |-> field, v |-> val, ttl |-> smExpiry(ttl, now)]],
               added |-> FALSE]
    ELSE [sm |-> Append(smProbe(sm, field, now),
                        [f |-> field, v |-> val, ttl |-> smExpiry(ttl, now)]),
          added |-> TRUE])

RECURSIVE ConvertFrom(_, _, _)
ConvertFrom(lp, i, sm) ==
  IF i > Len(lp) THEN sm
  ELSE ConvertFrom(lp, i + 2,
                   smAdd(sm, LpGetView(lp[i]), LpGetView(lp[i + 1]), UINT32_MAX, FALSE, 0).sm)

\* a conversion that starts at the second pair of the listpack
ConvertToStrMapFromSecond(lp) == ConvertFrom(lp, 3, << >>)

ConvertToStrMap(lp) == ConvertFrom(lp, 1, << >>)

\* the strings of a command's field and value arguments
ArgStrings(values) == {values[i][j] : i \in 1 .. Len(values), j \in 1 .. 2}

ArgBytes(values) ==
  SumOver(1 .. Len(values),
          [i \in 1 .. Len(values) |-> Len(values[i][1]) + Len(values[i][2])])

IsGoodForListpack(values, lp) ==
  /\ \A str \in ArgStrings(values) : Len(str) <= max_map_field_len
  /\ lpBytes(lp) + ArgBytes(values) < max_listpack_map_bytes

ListpackObj(lp) == [tag |-> "hash", enc |-> "listpack", lp |-> lp, sm |-> << >>]

StrMapObj(sm) == [tag |-> "hash", enc |-> "strmap", lp |-> << >>, sm |-> sm]

\* the database of the shard, passed through the calls of one command
HashDb ==
  [pv |-> hash_pv, blob_cnt |-> listpack_blob_cnt, bytes |-> listpack_bytes,
   now |-> hash_now]

\* AddOrFind: a new key becomes an empty hash, a listpack unless a TTL is given
OpSetEntry(db, ttl) ==
  IF db.pv.tag # "none" THEN db
  ELSE IF ttl = UINT32_MAX
  THEN [db EXCEPT !.pv = ListpackObj(<< >>), !.blob_cnt = @ + 1,
                  !.bytes = @ + lpBytes(<< >>)]
  ELSE [db EXCEPT !.pv = StrMapObj(<< >>)]

\* a listpack that cannot take the arguments is converted first
OpSetPromote(db, values, ttl) ==
  IF db.pv.enc # "listpack" THEN db
  ELSE IF ttl # UINT32_MAX \/ ~IsGoodForListpack(values, db.pv.lp)
  THEN [db EXCEPT !.bytes = @ - lpBytes(db.pv.lp), !.blob_cnt = @ - 1,
                  !.pv = StrMapObj(ConvertToStrMap(db.pv.lp))]
  ELSE [db EXCEPT !.bytes = @ - lpBytes(db.pv.lp)]

RECURSIVE LpInsertAll(_, _, _, _, _)
LpInsertAll(lp, values, i, skip_exists, created) ==
  IF i > Len(values) THEN [lp |-> lp, created |-> created]
  ELSE Bind(LpInsert(lp, values[i][1], values[i][2], skip_exists), LAMBDA r :
         LpInsertAll(r.lp, values, i + 1, skip_exists,
                     created + (IF r.inserted THEN 1 ELSE 0)))

RECURSIVE SmAddAll(_, _, _, _, _, _, _)
SmAddAll(sm, values, i, ttl, skip_exists, created, now) ==
  IF i > Len(values) THEN [sm |-> sm, created |-> created]
  ELSE Bind(smAdd(sm, values[i][1], values[i][2], ttl, skip_exists, now), LAMBDA r :
         SmAddAll(r.sm, values, i + 1, ttl, skip_exists,
                  created + (IF r.added THEN 1 ELSE 0), now))

OpSetStore(db, values, skip_exists, ttl) ==
  IF db.pv.enc = "listpack"
  THEN Bind(LpInsertAll(db.pv.lp, values, 1, skip_exists, 0), LAMBDA r :
         [db |-> [db EXCEPT !.pv = ListpackObj(r.lp), !.bytes = @ + lpBytes(r.lp)],
          status |-> "OK", created |-> r.created])
  ELSE Bind(SmAddAll(db.pv.sm, values, 1, ttl, skip_exists, 0, db.now), LAMBDA r :
         [db |-> [db EXCEPT !.pv = StrMapObj(r.sm)], status |-> "OK",
          created |-> r.created])

OpSet(db, values, skip_exists, ttl) ==
  IF db.pv.tag \notin {"none", "hash"}
  THEN [db |-> db, status |-> "WRONG_TYPE", created |-> 0]
  ELSE OpSetStore(OpSetPromote(OpSetEntry(db, ttl), values, ttl),
                  values, skip_exists, ttl)

\* the database after the lookup of OpGet: Find collects the expired entry
OpGetProbe(db, field) ==
  IF db.pv.tag = "hash" /\ db.pv.enc = "strmap"
  THEN [db EXCEPT !.pv = StrMapObj(smProbe(db.pv.sm, field, db.now))]
  ELSE db

OpGet(db, field) ==
  IF db.pv.tag = "none" THEN [status |-> "KEY_NOTFOUND", val |-> << >>]
  ELSE IF db.pv.tag # "hash" THEN [status |-> "WRONG_TYPE", val |-> << >>]
  ELSE IF db.pv.enc = "listpack"
  THEN Bind(LpFind(db.pv.lp, field), LAMBDA res :
         IF ~res.found THEN [status |-> "KEY_NOTFOUND", val |-> << >>]
         ELSE [status |-> "OK", val |-> res.val])
  ELSE Bind(smProbe(db.pv.sm, field, db.now), LAMBDA sm :
         IF smFind(sm, field) = 0 THEN [status |-> "KEY_NOTFOUND", val |-> << >>]
         ELSE [status |-> "OK", val |-> sm[smFind(sm, field)].v])

\* HMapLength: the size of a StringMap counts the expired entries that no
\* probe has collected yet
HMapLength(pv) ==
  IF pv.enc = "strmap" THEN Len(pv.sm) ELSE Len(pv.lp) \div 2

OpLen(db) ==
  IF db.pv.tag = "none" THEN [status |-> "OK", val |-> 0]
  ELSE IF db.pv.tag # "hash" THEN [status |-> "WRONG_TYPE", val |-> 0]
  ELSE [status |-> "OK", val |-> HMapLength(db.pv)]

\* OpGetAll with mask FIELDS | VALUES: fields and values alternate
OpGetAll(db) ==
  IF db.pv.tag = "none" THEN [status |-> "OK", res |-> << >>]
  ELSE IF db.pv.tag # "hash" THEN [status |-> "WRONG_TYPE", res |-> << >>]
  ELSE IF db.pv.enc = "listpack"
  THEN [status |-> "OK", res |-> [i \in 1 .. Len(db.pv.lp) |-> LpGetView(db.pv.lp[i])]]
  ELSE Bind(SelectSeq(db.pv.sm, LAMBDA e : ~Expired(e, db.now)), LAMBDA sm :
         [status |-> "OK",
          res |-> [i \in 1 .. 2 * Len(sm) |->
                     IF i % 2 = 1 THEN sm[(i + 1) \div 2].f ELSE sm[i \div 2].v]])

\* string2ll: a canonical number within the range of long long
string2ll(str) == IsCanonicalInt(str) /\ StrToInt(str) \in LLONG_MIN .. LLONG_MAX

\* string2ld: strtold also takes a sign and leading zeros
string2ld(str) ==
  Bind(IF Len(str) >= 1 /\ str[1] = 45 THEN Tail(str) ELSE str, LAMBDA digits :
    Len(digits) >= 1 /\ \A i \in 1 .. Len(digits) : IsDigit(digits[i]))

\* the sum of two int64_t, which wraps around; scaled to 8 bits
Int64Add(a, b) == ((a + b - LLONG_MIN) % (LLONG_MAX - LLONG_MIN + 1)) + LLONG_MIN

\* the increment nan of a command
kNaN == 1000

\* IncrementValue that tests the upper bound of long long only
IncrementValueUpperOnly(found, prev_val, incr, is_float) ==
  IF is_float
  THEN IF found /\ ~string2ld(prev_val) THEN [status |-> "INVALID_VALUE", val |-> 0]
       ELSE IF incr = kNaN THEN [status |-> "INVALID_FLOAT", val |-> 0]
       ELSE [status |-> "OK", val |-> (IF found THEN StrToInt(prev_val) ELSE 0) + incr]
  ELSE IF found /\ ~string2ll(prev_val) THEN [status |-> "INVALID_VALUE", val |-> 0]
  ELSE Bind(IF found THEN StrToInt(prev_val) ELSE 0, LAMBDA old_val :
         IF incr > 0 /\ old_val > 0 /\ incr > LLONG_MAX - old_val
         THEN [status |-> "OUT_OF_RANGE", val |-> 0]
         ELSE [status |-> "OK", val |-> Int64Add(old_val, incr)])

\* the increments are whole numbers, which FormatDouble prints as integers,
\* or nan, which absl::SimpleAtod accepts
IncrementValue(found, prev_val, incr, is_float) ==
  IF is_float
  THEN IF found /\ ~string2ld(prev_val) THEN [status |-> "INVALID_VALUE", val |-> 0]
       ELSE IF incr = kNaN THEN [status |-> "INVALID_FLOAT", val |-> 0]
       ELSE [status |-> "OK", val |-> (IF found THEN StrToInt(prev_val) ELSE 0) + incr]
  ELSE IF found /\ ~string2ll(prev_val) THEN [status |-> "INVALID_VALUE", val |-> 0]
  ELSE Bind(IF found THEN StrToInt(prev_val) ELSE 0, LAMBDA old_val :
         IF \/ (incr < 0 /\ old_val < 0 /\ incr < LLONG_MIN - old_val)
            \/ (incr > 0 /\ old_val > 0 /\ incr > LLONG_MAX - old_val)
         THEN [status |-> "OUT_OF_RANGE", val |-> 0]
         ELSE [status |-> "OK", val |-> Int64Add(old_val, incr)])

\* OpIncrBy up to the increment: a new key becomes an empty listpack, a
\* listpack at the byte limit is converted
OpIncrByEntry(db) ==
  IF db.pv.tag = "none"
  THEN [db EXCEPT !.pv = ListpackObj(<< >>), !.blob_cnt = @ + 1]
  ELSE IF db.pv.enc # "listpack" THEN db
  ELSE IF lpBytes(db.pv.lp) >= max_listpack_map_bytes
  THEN [db EXCEPT !.bytes = @ - lpBytes(db.pv.lp), !.blob_cnt = @ - 1,
                  !.pv = StrMapObj(ConvertToStrMap(db.pv.lp))]
  ELSE [db EXCEPT !.bytes = @ - lpBytes(db.pv.lp)]

OpIncrByListpack(db, lpb, is_new, field, incr, is_float) ==
  Bind(IF is_new THEN [found |-> FALSE, val |-> << >>] ELSE LpFind(db.pv.lp, field),
       LAMBDA res :
    Bind(IncrementValue(res.found, res.val, incr, is_float), LAMBDA iv :
      IF iv.status # "OK"
      THEN [db |-> [db EXCEPT !.bytes = @ + lpb], status |-> iv.status, val |-> 0]
      ELSE Bind(LpInsert(db.pv.lp, field, IntToStr(iv.val), FALSE).lp, LAMBDA lp :
             [db |-> [db EXCEPT !.pv = ListpackObj(lp), !.bytes = @ + lpBytes(lp)],
              status |-> "OK", val |-> iv.val])))

OpIncrByStrMap(db, is_new, field, incr, is_float) ==
  Bind(smProbe(db.pv.sm, field, db.now), LAMBDA sm :
    Bind(IncrementValue(smFind(sm, field) # 0,
                        IF smFind(sm, field) # 0 THEN sm[smFind(sm, field)].v ELSE << >>,
                        incr, is_float),
         LAMBDA iv :
      IF iv.status # "OK"
      THEN [db |-> [db EXCEPT !.pv = StrMapObj(sm)], status |-> iv.status, val |-> 0]
      ELSE [db |-> [db EXCEPT !.pv =
                      StrMapObj(smAdd(sm, field, IntToStr(iv.val), UINT32_MAX, FALSE,
                                      db.now).sm)],
            status |-> "OK", val |-> iv.val]))

OpIncrBy(db, field, incr, is_float) ==
  IF db.pv.tag \notin {"none", "hash"} THEN [db |-> db, status |-> "WRONG_TYPE", val |-> 0]
  ELSE IF OpIncrByEntry(db).pv.enc = "listpack"
  THEN OpIncrByListpack(OpIncrByEntry(db),
                        IF db.pv.enc = "listpack" THEN lpBytes(db.pv.lp) ELSE 0,
                        db.pv.tag = "none", field, incr, is_float)
  ELSE OpIncrByStrMap(OpIncrByEntry(db), db.pv.tag = "none", field, incr, is_float)

\* LpDelete: the field and its value leave the listpack
LpDelete(lp, field) ==
  Bind(lpFind(lp, field), LAMBDA i :
    IF i = 0 THEN [lp |-> lp, deleted |-> FALSE]
    ELSE [lp |-> SubSeq(lp, 1, i - 1) \o SubSeq(lp, i + 2, Len(lp)), deleted |-> TRUE])

\* StringMap::Erase
smErase(sm, field, now) ==
  Bind(smProbe(sm, field, now), LAMBDA live :
    [sm |-> SelectSeq(live, LAMBDA e : e.f # field), erased |-> smFind(live, field) # 0])

\* the loops of OpDel over the fields, which stop when the hash is empty
RECURSIVE LpDeleteAll(_, _, _, _)
LpDeleteAll(lp, fields, i, deleted) ==
  IF i > Len(fields) THEN [lp |-> lp, deleted |-> deleted, key_remove |-> FALSE]
  ELSE Bind(LpDelete(lp, fields[i]), LAMBDA res :
         IF ~res.deleted THEN LpDeleteAll(lp, fields, i + 1, deleted)
         ELSE IF Len(res.lp) = 0
         THEN [lp |-> res.lp, deleted |-> deleted + 1, key_remove |-> TRUE]
         ELSE LpDeleteAll(res.lp, fields, i + 1, deleted + 1))

RECURSIVE SmEraseAll(_, _, _, _, _)
SmEraseAll(sm, fields, i, deleted, now) ==
  IF i > Len(fields) THEN [sm |-> sm, deleted |-> deleted, key_remove |-> FALSE]
  ELSE Bind(smErase(sm, fields[i], now), LAMBDA res :
         IF ~res.erased THEN SmEraseAll(res.sm, fields, i + 1, deleted, now)
         ELSE IF Len(res.sm) = 0
         THEN [sm |-> res.sm, deleted |-> deleted + 1, key_remove |-> TRUE]
         ELSE SmEraseAll(res.sm, fields, i + 1, deleted + 1, now))

\* an OpDel that does not add the bytes of the listpack back
OpDelNoRestore(db, fields) ==
  IF db.pv.tag = "none" THEN [db |-> db, status |-> "KEY_NOTFOUND", deleted |-> 0]
  ELSE IF db.pv.tag # "hash" THEN [db |-> db, status |-> "WRONG_TYPE", deleted |-> 0]
  ELSE IF db.pv.enc = "listpack"
  THEN Bind(LpDeleteAll(db.pv.lp, fields, 1, 0), LAMBDA r :
         [db |-> IF r.key_remove
                 THEN [db EXCEPT !.pv = NoObj, !.blob_cnt = @ - 1,
                                 !.bytes = @ - lpBytes(db.pv.lp)]
                 ELSE [db EXCEPT !.pv = ListpackObj(r.lp),
                                 !.bytes = @ - lpBytes(db.pv.lp)],
          status |-> "OK", deleted |-> r.deleted])
  ELSE Bind(SmEraseAll(db.pv.sm, fields, 1, 0, db.now), LAMBDA r :
         [db |-> [db EXCEPT !.pv = IF r.key_remove THEN NoObj ELSE StrMapObj(r.sm)],
          status |-> "OK", deleted |-> r.deleted])

OpDel(db, fields) ==
  IF db.pv.tag = "none" THEN [db |-> db, status |-> "KEY_NOTFOUND", deleted |-> 0]
  ELSE IF db.pv.tag # "hash" THEN [db |-> db, status |-> "WRONG_TYPE", deleted |-> 0]
  ELSE IF db.pv.enc = "listpack"
  THEN Bind(LpDeleteAll(db.pv.lp, fields, 1, 0), LAMBDA r :
         [db |-> IF r.key_remove
                 THEN [db EXCEPT !.pv = NoObj, !.blob_cnt = @ - 1,
                                 !.bytes = @ - lpBytes(db.pv.lp)]
                 ELSE [db EXCEPT !.pv = ListpackObj(r.lp),
                                 !.bytes = @ - lpBytes(db.pv.lp) + lpBytes(r.lp)],
          status |-> "OK", deleted |-> r.deleted])
  ELSE Bind(SmEraseAll(db.pv.sm, fields, 1, 0, db.now), LAMBDA r :
         [db |-> [db EXCEPT !.pv = IF r.key_remove THEN NoObj ELSE StrMapObj(r.sm)],
          status |-> "OK", deleted |-> r.deleted])

CommitH(db) ==
  /\ hash_pv' = db.pv
  /\ listpack_blob_cnt' = db.blob_cnt
  /\ listpack_bytes' = db.bytes
  /\ hash_now' = db.now
  /\ num_cmds' = num_cmds + 1
  /\ UNCHANGED nonHash

HPairs == HFields \X HVals

HArgs == {<< p >> : p \in HPairs} \cup {<< p, q >> : p \in HPairs, q \in HPairs}

\* HSET key field value [field value ...]
HSet(values) ==
  /\ num_cmds < MaxCmds
  /\ \E r \in {OpSet(HashDb, values, FALSE, UINT32_MAX)} :
       /\ CommitH(r.db)
       /\ last_cmd' = [cmd |-> "HSET", values |-> values, status |-> r.status,
                       created |-> r.created, was |-> hash_pv.enc]

\* an HSETNX that does not ask OpSet to skip the fields that exist
HSetNxOverwrites(field, val) ==
  /\ num_cmds < MaxCmds
  /\ \E r \in {OpSet(HashDb, << << field, val >> >>, FALSE, UINT32_MAX)} :
       /\ CommitH(r.db)
       /\ last_cmd' = [cmd |-> "HSETNX", values |-> << << field, val >> >>,
                       status |-> r.status, created |-> r.created, was |-> hash_pv.enc,
                       prev |-> HashDb]

\* HSETNX key field value
HSetNx(field, val) ==
  /\ num_cmds < MaxCmds
  /\ \E r \in {OpSet(HashDb, << << field, val >> >>, TRUE, UINT32_MAX)} :
       /\ CommitH(r.db)
       /\ last_cmd' = [cmd |-> "HSETNX", values |-> << << field, val >> >>,
                       status |-> r.status, created |-> r.created, was |-> hash_pv.enc,
                       prev |-> HashDb]

\* an HSETEX that passes no TTL on to OpSet
HSetExForever(field, val, ttl_sec) ==
  /\ num_cmds < MaxCmds
  /\ \E r \in {IF ttl_sec = 0 \/ ttl_sec > kMaxTtl
                THEN [db |-> HashDb, status |-> "kInvalidIntErr", created |-> 0]
                ELSE OpSet(HashDb, << << field, val >> >>, FALSE, UINT32_MAX)} :
       /\ CommitH(r.db)
       /\ last_cmd' = [cmd |-> "HSETEX", values |-> << << field, val >> >>,
                       status |-> r.status, created |-> r.created, was |-> hash_pv.enc,
                       ttl |-> ttl_sec, at |-> hash_now]

\* HSETEX key ttl field value
HSetEx(field, val, ttl_sec) ==
  /\ num_cmds < MaxCmds
  /\ \E r \in {IF ttl_sec = 0 \/ ttl_sec > kMaxTtl
                THEN [db |-> HashDb, status |-> "kInvalidIntErr", created |-> 0]
                ELSE OpSet(HashDb, << << field, val >> >>, FALSE, ttl_sec)} :
       /\ CommitH(r.db)
       /\ last_cmd' = [cmd |-> "HSETEX", values |-> << << field, val >> >>,
                       status |-> r.status, created |-> r.created, was |-> hash_pv.enc,
                       ttl |-> ttl_sec, at |-> hash_now]

\* HGET key field
HGet(field) ==
  /\ num_cmds < MaxCmds
  /\ CommitH(OpGetProbe(HashDb, field))
  /\ last_cmd' = [cmd |-> "HGET", values |-> << << field, OpGet(HashDb, field).val >> >>,
                  status |-> OpGet(HashDb, field).status, created |-> 0,
                  was |-> hash_pv.enc, at |-> hash_now]

\* HDEL key field [field ...]; without the key the reply is 0
HDel(fields) ==
  /\ num_cmds < MaxCmds
  /\ \E r \in {OpDel(HashDb, fields)} :
       /\ CommitH(r.db)
       /\ last_cmd' = [cmd |-> "HDEL", fields |-> fields,
                       status |-> IF r.status = "KEY_NOTFOUND" THEN "OK" ELSE r.status,
                       created |-> r.deleted, was |-> hash_pv.enc, at |-> hash_now,
                       prev |-> HashDb]

\* HLEN key
HLen ==
  /\ num_cmds < MaxCmds
  /\ CommitH(HashDb)
  /\ last_cmd' = [cmd |-> "HLEN", values |-> << >>, status |-> OpLen(HashDb).status,
                  created |-> OpLen(HashDb).val, was |-> hash_pv.enc, at |-> hash_now]

\* a second passes between two commands
HashTick ==
  /\ hash_now < MaxTime
  /\ hash_now' = hash_now + 1
  /\ UNCHANGED << hash_pv, listpack_blob_cnt, listpack_bytes, last_cmd, num_cmds >>
  /\ UNCHANGED nonHash

\* HINCRBY key field increment, HINCRBYFLOAT key field increment
HIncrBy(field, incr, is_float) ==
  /\ num_cmds < MaxCmds
  /\ \E r \in {OpIncrBy(HashDb, field, incr, is_float)} :
       /\ CommitH(r.db)
       /\ last_cmd' = [cmd |-> IF is_float THEN "HINCRBYFLOAT" ELSE "HINCRBY",
                       values |-> << << field, IntToStr(incr) >> >>,
                       status |-> r.status, created |-> r.val, was |-> hash_pv.enc]

\* the values a field holds when HINCRBY is looked at, and the increments
IncrOlds == {LLONG_MIN, 0 - 100, 0 - 1, 0, 1, 27, 100, LLONG_MAX}

IncrArgs == {LLONG_MIN, 0 - 100, 0 - 1, 1, 100, LLONG_MAX}

\* the hashes HINCRBY is looked at on: no key, and a listpack or a StringMap
\* whose field "1" holds a number, or "abc"
IncrHashes ==
  {NoObj}
    \cup {ListpackObj(<< lpEntry(<< 49 >>), lpEntry(IntToStr(o)) >>) : o \in IncrOlds}
    \cup {StrMapObj(<< [f |-> << 49 >>, v |-> IntToStr(o), ttl |-> UINT32_MAX] >>) :
            o \in IncrOlds}
    \cup {ListpackObj(<< lpEntry(<< 49 >>), lpEntry(<< 97, 98, 99 >>) >>)}

InitIncr ==
  \E pv \in IncrHashes :
    /\ hash_pv = pv
    /\ listpack_blob_cnt = (IF pv.enc = "listpack" THEN 1 ELSE 0)
    /\ listpack_bytes = (IF pv.enc = "listpack" THEN lpBytes(pv.lp) ELSE 0)
    /\ hash_now = 0
    /\ last_cmd = NoCmd
    /\ num_cmds = 0

\* HINCRBY on the field "1" and on the field "2", which no hash holds at first
NextIncr ==
  \E field \in {<< 49 >>, << 50 >>}, incr \in IncrArgs : HIncrBy(field, incr, FALSE)

NextHash ==
  \/ \E values \in HArgs : HSet(values)
  \/ \E field \in HFields, val \in HVals : HSetNx(field, val)
  \/ \E field \in HFields, val \in HVals : HSetEx(field, val, 1)
  \/ \E field \in HIncrFields, incr \in HIncrs, is_float \in BOOLEAN :
       HIncrBy(field, incr, is_float)

HDelArgs == {<< f >> : f \in HFields} \cup {<< f, g >> : f \in HFields, g \in HFields}

\* the commands on a hash with field TTLs, as the seconds pass
NextHashTtl ==
  \/ \E field \in HFields, val \in HVals : HSet(<< << field, val >> >>)
  \/ \E field \in HFields, val \in HVals, ttl_sec \in HTtls : HSetEx(field, val, ttl_sec)
  \/ \E field \in HFields : HGet(field)
  \/ HLen
  \/ \E fields \in HDelArgs : HDel(fields)
  \/ HashTick

\* the value the last pair of a command gives a field
LastValue(values, field) ==
  values[CHOOSE i \in 1 .. Len(values) :
           /\ values[i][1] = field
           /\ \A j \in 1 .. Len(values) : values[j][1] = field => j <= i][2]

\* the positions of a field among the pairs HGETALL replies
PairsOf(res, field) == {j \in 1 .. Len(res) \div 2 : res[2 * j - 1] = field}

\* C10: after a successful HSET key f v, HGET key f returns v and HGETALL
\* key holds the pair (f, v) exactly once, in listpack encoding, in StrMap
\* encoding and when that HSET promotes the hash.
C10_HSetThenGet ==
  (last_cmd.cmd = "HSET" /\ last_cmd.status = "OK") =>
    \A i \in 1 .. Len(last_cmd.values) :
      LET field == last_cmd.values[i][1]
          val == LastValue(last_cmd.values, field)
          res == OpGetAll(HashDb).res
      IN /\ OpGet(HashDb, field) = [status |-> "OK", val |-> val]
         /\ Cardinality(PairsOf(res, field)) = 1
         /\ \A j \in PairsOf(res, field) : res[2 * j] = val

\* C10 witness: an HSET that replaced the value of an existing field
\* promoted the listpack to a StringMap with several fields
C10_Witness ==
  /\ last_cmd.cmd = "HSET"
  /\ last_cmd.status = "OK"
  /\ last_cmd.was = "listpack"
  /\ last_cmd.created < Len(last_cmd.values)
  /\ hash_pv.enc = "strmap"
  /\ Len(hash_pv.sm) >= 2

\* an HSET into a listpack that stays a listpack replaced a number
C10_WitnessListpack ==
  /\ last_cmd.cmd = "HSET"
  /\ last_cmd.status = "OK"
  /\ last_cmd.created = 0
  /\ hash_pv.enc = "listpack"
  /\ \E i \in 1 .. Len(hash_pv.lp) : hash_pv.lp[i].int /\ hash_pv.lp[i].n >= 10

\* the (field, value) pairs of a listpack and of a StringMap, in their order
LpPairs(lp) ==
  [j \in 1 .. Len(lp) \div 2 |-> << LpGetView(lp[2 * j - 1]), LpGetView(lp[2 * j]) >>]

SmPairs(sm) == [i \in 1 .. Len(sm) |-> << sm[i].f, sm[i].v >>]

CountIn(seq, x) == Cardinality({i \in 1 .. Len(seq) : seq[i] = x})

SameMultiset(a, b) ==
  \A x \in {a[i] : i \in 1 .. Len(a)} \cup {b[i] : i \in 1 .. Len(b)} :
    CountIn(a, x) = CountIn(b, x)

\* C11: the StringMap that ConvertToStrMap makes of the listpack of a hash
\* holds the same multiset of (field, value) pairs as the listpack, and as
\* many fields.
C11_PromotionKeeps ==
  hash_pv.enc = "listpack" =>
    /\ SameMultiset(SmPairs(ConvertToStrMap(hash_pv.lp)), LpPairs(hash_pv.lp))
    /\ Len(ConvertToStrMap(hash_pv.lp)) = Len(hash_pv.lp) \div 2

\* a listpack of two fields, one of its values stored as an integer
C11_Witness ==
  /\ hash_pv.enc = "listpack"
  /\ Len(hash_pv.lp) >= 4
  /\ \E i \in 1 .. Len(hash_pv.lp) : hash_pv.lp[i].int /\ hash_pv.lp[i].n >= 10
  /\ \E i \in 1 .. Len(hash_pv.lp) : ~hash_pv.lp[i].int

HashWrites == {"HSET", "HSETNX", "HSETEX", "HINCRBY", "HINCRBYFLOAT"}

\* C12: after a hash write command a hash that is still a listpack holds no
\* field or value longer than max_map_field_len and no more than
\* max_listpack_map_bytes bytes, and a write with a TTL leaves a StringMap.
C12_ListpackBounds ==
  (last_cmd.cmd \in HashWrites /\ last_cmd.status = "OK") =>
    /\ last_cmd.cmd = "HSETEX" => hash_pv.enc = "strmap"
    /\ hash_pv.enc = "listpack" =>
         /\ \A i \in 1 .. Len(hash_pv.lp) :
              Len(LpGetView(hash_pv.lp[i])) <= max_map_field_len
         /\ lpBytes(hash_pv.lp) <= max_listpack_map_bytes

\* the database as a command finds it at second t
AtTime(db, t) == [db EXCEPT !.now = t]

\* the field and value of the last command with one pair
LastField == last_cmd.values[1][1]

\* after HSETEX h ttl f v, HGET h f returns v for the ttl seconds to come and
\* nil from then on; an HGET that returns a value found an entry that has not
\* expired
HGetWithinTtl ==
  /\ (last_cmd.cmd = "HSETEX" /\ last_cmd.status = "OK") =>
       \A t \in hash_now .. last_cmd.at + last_cmd.ttl + 1 :
         OpGet(AtTime(HashDb, t), LastField) =
           IF t < last_cmd.at + last_cmd.ttl THEN [status |-> "OK", val |-> last_cmd.values[1][2]]
           ELSE [status |-> "KEY_NOTFOUND", val |-> << >>]
  /\ (last_cmd.cmd = "HGET" /\ last_cmd.status = "OK" /\ hash_pv.enc = "strmap") =>
       \E i \in 1 .. Len(hash_pv.sm) :
         /\ hash_pv.sm[i].f = LastField
         /\ hash_pv.sm[i].v = last_cmd.values[1][2]
         /\ ~Expired(hash_pv.sm[i], last_cmd.at)

\* the entries of a StringMap that have not expired
LiveEntries(pv, now) == {i \in 1 .. Len(pv.sm) : ~Expired(pv.sm[i], now)}

\* C13 as stated: after HSETEX h ttl f v, HGET h f returns v before ttl
\* seconds have elapsed and nil afterwards, and HLEN h does not count a
\* field that has expired.
C13_HLenSkipsExpired ==
  /\ HGetWithinTtl
  /\ (last_cmd.cmd = "HLEN" /\ last_cmd.status = "OK" /\ hash_pv.enc = "strmap") =>
       last_cmd.created = Cardinality(LiveEntries(hash_pv, last_cmd.at))

\* C13, amended: after HSETEX h ttl f v, HGET h f returns v before ttl seconds
\* have elapsed and nil afterwards; once an HGET h f has returned nil HLEN h
\* does not count f (0 when f was the only field), while before such a
\* lookup HLEN may still count the expired field.
C13_FieldTtl ==
  /\ HGetWithinTtl
  /\ (last_cmd.cmd = "HGET" /\ last_cmd.status = "KEY_NOTFOUND" /\ hash_pv.tag = "hash") =>
       /\ OpLen(HashDb).status = "OK"
       /\ OpLen(HashDb).val =
            IF hash_pv.enc = "strmap"
            THEN Cardinality({i \in 1 .. Len(hash_pv.sm) : hash_pv.sm[i].f # LastField})
            ELSE Cardinality({j \in 1 .. Len(hash_pv.lp) \div 2 :
                               LpGetView(hash_pv.lp[2 * j - 1]) # LastField})
  /\ (last_cmd.cmd = "HLEN" /\ last_cmd.status = "OK" /\ hash_pv.enc = "strmap") =>
       last_cmd.created >= Cardinality(LiveEntries(hash_pv, last_cmd.at))

\* C13 witness: an HGET after the TTL of the only field of the hash found
\* nothing, and HLEN is 0
C13_Witness ==
  /\ last_cmd.cmd = "HGET"
  /\ last_cmd.status = "KEY_NOTFOUND"
  /\ last_cmd.was = "strmap"
  /\ hash_now >= 1
  /\ hash_pv.tag = "hash"
  /\ hash_pv.sm = << >>
  /\ OpLen(HashDb).val = 0

\* an HGET within the TTL returned the value of a field that expires later
C13_WitnessLive ==
  /\ last_cmd.cmd = "HGET"
  /\ last_cmd.status = "OK"
  /\ hash_now >= 1
  /\ \E i \in 1 .. Len(hash_pv.sm) :
       /\ hash_pv.sm[i].f = LastField
       /\ hash_pv.sm[i].ttl # UINT32_MAX
       /\ hash_pv.sm[i].ttl > hash_now

\* C17: an HDEL that names only fields the hash does not hold replies 0 and
\* changes nothing: the fields and values HGETALL lists, the encoding, the
\* existence of the key, listpack_bytes and listpack_blob_cnt stay as they were.
C17_HDelAbsent ==
  (/\ last_cmd.cmd = "HDEL"
   /\ last_cmd.prev.pv.tag \in {"none", "hash"}
   /\ \A i \in 1 .. Len(last_cmd.fields) :
        OpGet(last_cmd.prev, last_cmd.fields[i]).status # "OK") =>
    /\ last_cmd.status = "OK"
    /\ last_cmd.created = 0
    /\ OpGetAll(AtTime(HashDb, last_cmd.at)) = OpGetAll(last_cmd.prev)
    /\ hash_pv.tag = last_cmd.prev.pv.tag
    /\ hash_pv.enc = last_cmd.prev.pv.enc
    /\ listpack_bytes = last_cmd.prev.bytes
    /\ listpack_blob_cnt = last_cmd.prev.blob_cnt

\* C17 witness: an HDEL of two absent fields on a listpack with fields
C17_Witness ==
  /\ last_cmd.cmd = "HDEL"
  /\ Len(last_cmd.fields) = 2
  /\ last_cmd.created = 0
  /\ last_cmd.prev.pv.enc = "listpack"
  /\ Len(last_cmd.prev.pv.lp) >= 2
  /\ listpack_bytes > 0

\* an HDEL of an absent field on a StringMap with fields
C17_WitnessStrMap ==
  /\ last_cmd.cmd = "HDEL"
  /\ last_cmd.created = 0
  /\ last_cmd.prev.pv.enc = "strmap"
  /\ LiveEntries(last_cmd.prev.pv, last_cmd.at) # {}

\* the (field, value) pairs HGETALL lists
HashPairs(db) ==
  [j \in 1 .. Len(OpGetAll(db).res) \div 2 |->
     << OpGetAll(db).res[2 * j - 1], OpGetAll(db).res[2 * j] >>]

\* C18: an HSETNX on a field the hash holds replies 0, the field keeps its
\* value and every other (field, value) pair of the hash stays as it was.
C18_HSetNxExisting ==
  (last_cmd.cmd = "HSETNX" /\ OpGet(last_cmd.prev, LastField).status = "OK") =>
    /\ last_cmd.status = "OK"
    /\ last_cmd.created = 0
    /\ OpGet(HashDb, LastField) = OpGet(last_cmd.prev, LastField)
    /\ SameMultiset(HashPairs(HashDb), HashPairs(last_cmd.prev))

\* C18 witness: an HSETNX with another value on a field of a listpack that
\* holds several fields
C18_Witness ==
  /\ last_cmd.cmd = "HSETNX"
  /\ last_cmd.prev.pv.enc = "listpack"
  /\ Len(last_cmd.prev.pv.lp) >= 4
  /\ OpGet(last_cmd.prev, LastField).status = "OK"
  /\ OpGet(last_cmd.prev, LastField).val # last_cmd.values[1][2]

\* an HSETNX on a field of a StringMap
C18_WitnessStrMap ==
  /\ last_cmd.cmd = "HSETNX"
  /\ last_cmd.prev.pv.enc = "strmap"
  /\ OpGet(last_cmd.prev, LastField).status = "OK"
  /\ OpGet(last_cmd.prev, LastField).val # last_cmd.values[1][2]

(***************************************************************************)
(* Sorted sets (zset_family.cc): the set operations and the geo search of  *)
(* several hops, run as transactions over the shards                       *)
(***************************************************************************)
Tx == {1, 2}

Shards == {0, 1}

ZKeys == {0, 1, 2, 3}

Members == {1, 2}

\* Shard(key, shard_set->size())
Shard(key) == key % Cardinality(Shards)

\* the keys of the sorted sets whose encoding is followed
ZObjKeys == {1, 2}

\* no sorted set at the key
NoZObj == [enc |-> "none", zs |-> {}]

ZNone == [type |-> "none", zs |-> {}]

ZStr == [type |-> "string", zs |-> {}]

\* a sorted set: pairs << member, score >>, one per member
ZSet(zs) == [type |-> "zset", zs |-> zs]

MembersOf(zs) == {p[1] : p \in zs}

ScoreIn(zs, m) == IF m \in MembersOf(zs) THEN (CHOOSE p \in zs : p[1] = m)[2] ELSE 0

OpResultOf(status, map) == [status |-> status, map |-> map]

\* DbSlice::FindReadOnly(key, OBJ_ZSET), its status
FindStatus(db, key) ==
  IF db[key].type = "none" THEN "KEY_NOTFOUND"
  ELSE IF db[key].type = "zset" THEN "OK" ELSE "WRONG_TYPE"

\* the aggregate is SUM and the weights are 1
UnionScoredMap(dest, src) ==
  {<< m, ScoreIn(dest, m) + ScoreIn(src, m) >> : m \in MembersOf(dest) \cup MembersOf(src)}

InterScoredMap(dest, src) ==
  {<< m, ScoreIn(dest, m) + ScoreIn(src, m) >> : m \in MembersOf(dest) \cap MembersOf(src)}

\* a command: its source keys, the key it stores to and the member it
\* searches from, the last two present or not
NoZCmd == [name |-> "none", keys |-> << >>, dest |-> << >>, member |-> << >>]

ZCmds ==
  {[name |-> "ZINTER", keys |-> << 0, 1 >>, dest |-> << >>, member |-> << >>],
   [name |-> "ZUNION", keys |-> << 0, 1 >>, dest |-> << >>, member |-> << >>],
   [name |-> "ZUNION", keys |-> << 2, 1 >>, dest |-> << >>, member |-> << >>],
   [name |-> "ZUNIONSTORE", keys |-> << 0, 1 >>, dest |-> << 2 >>, member |-> << >>],
   [name |-> "ZINTERSTORE", keys |-> << 0, 1 >>, dest |-> << 3 >>, member |-> << >>],
   [name |-> "GEOSEARCH", keys |-> << 1 >>, dest |-> << >>, member |-> << >>],
   [name |-> "GEORADIUSBYMEMBER", keys |-> << 1 >>, dest |-> << 2 >>, member |-> << 2 >>]}

AllKeys(c) == c.dest \o c.keys

KeySet(c) == {AllKeys(c)[i] : i \in 1 .. Len(AllKeys(c))}

UniqueShards(c) == {Shard(k) : k \in KeySet(c)}

\* Transaction::GetShardArgs: the keys of the command that the shard hosts
GetShardArgs(c, s) == SelectSeq(AllKeys(c), LAMBDA k : Shard(k) = s)

\* the keys after the destination, when the shard hosts it
SourceArgs(c, s) ==
  LET keys == GetShardArgs(c, s)
  IN IF c.dest # << >> /\ Head(keys) = c.dest[1] THEN Tail(keys) ELSE keys

RECURSIVE UnionShardKeysWithScore(_, _, _)
UnionShardKeysWithScore(db, keys, result) ==
  IF keys = << >> THEN result
  ELSE UnionShardKeysWithScore(db, Tail(keys),
         IF db[Head(keys)].type = "zset"
         THEN UnionScoredMap(result, db[Head(keys)].zs) ELSE result)

OpUnion(db, c, s) ==
  LET start == SourceArgs(c, s)
  IN IF c.dest # << >> /\ start = << >> THEN OpResultOf("OK", {})
     ELSE IF \E i \in 1 .. Len(start) : FindStatus(db, start[i]) = "WRONG_TYPE"
          THEN OpResultOf("WRONG_TYPE", {})
          ELSE OpResultOf("OK", UnionShardKeysWithScore(db, start, {}))

RECURSIVE InterShardKeys(_, _, _)
InterShardKeys(db, keys, result) ==
  IF keys = << >> THEN result
  ELSE IF db[Head(keys)].type = "none" THEN {}
  ELSE LET r == IF result = {} THEN db[Head(keys)].zs
                ELSE InterScoredMap(result, db[Head(keys)].zs)
       IN IF r = {} THEN r ELSE InterShardKeys(db, Tail(keys), r)

OpInter(db, c, s) ==
  LET start == SourceArgs(c, s)
  IN IF c.dest # << >> /\ start = << >> THEN OpResultOf("SKIPPED", {})
     ELSE IF \E i \in 1 .. Len(start) : db[start[i]].type \notin {"none", "zset"}
          THEN OpResultOf("WRONG_TYPE", {})
          ELSE OpResultOf("OK", InterShardKeys(db, start, {}))

RECURSIVE IntersectFrom(_, _, _)
IntersectFrom(maps, s, result) ==
  IF s \notin Shards THEN OpResultOf("OK", result)
  ELSE IF maps[s].status = "SKIPPED" THEN IntersectFrom(maps, s + 1, result)
  ELSE IF maps[s].status # "OK" THEN OpResultOf(maps[s].status, {})
  ELSE IF maps[s].map = {} THEN OpResultOf("OK", {})
  ELSE LET r == IF result = {} THEN maps[s].map
                ELSE InterScoredMap(result, maps[s].map)
       IN IF r = {} THEN OpResultOf("OK", r) ELSE IntersectFrom(maps, s + 1, r)

IntersectResults(maps) == IntersectFrom(maps, 0, {})

OpKeyExisted(db, key) == OpResultOf(FindStatus(db, key), {})

OpScore(db, key, member) ==
  IF FindStatus(db, key) # "OK" THEN OpResultOf(FindStatus(db, key), {})
  ELSE IF member \notin MembersOf(db[key].zs) THEN OpResultOf("MEMBER_NOTFOUND", {})
  ELSE OpResultOf("OK", {})

\* every member of the set lies within the shape
OpRanges(db, key, s) ==
  IF Shard(key) # s \/ FindStatus(db, key) # "OK"
  THEN OpResultOf(IF Shard(key) # s THEN "KEY_NOTFOUND" ELSE FindStatus(db, key), {})
  ELSE OpResultOf("OK", db[key].zs)

\* FindZEntry that leaves the watchers of a new key asleep
FindZEntryNoAwake(db, key, xx, override) ==
  IF xx THEN [status |-> FindStatus(db, key), db |-> db, awake |-> FALSE]
  ELSE IF db[key].type = "none" \/ override
       THEN [status |-> "OK", db |-> [db EXCEPT ![key] = ZSet({})], awake |-> FALSE]
       ELSE [status |-> FindStatus(db, key), db |-> db, awake |-> FALSE]

\* the entry of a sorted set to add to; awake tells that the watchers of
\* the key are to be woken
FindZEntry(db, key, xx, override) ==
  IF xx THEN [status |-> FindStatus(db, key), db |-> db, awake |-> FALSE]
  ELSE IF db[key].type = "none" \/ override
       THEN [status |-> "OK", db |-> [db EXCEPT ![key] = ZSet({})],
             awake |-> db[key].type = "none"]
       ELSE [status |-> FindStatus(db, key), db |-> db, awake |-> FALSE]

OpAdd(db, key, members, xx, override) ==
  IF override /\ members = {}
  THEN [status |-> "OK", db |-> [db EXCEPT ![key] = ZNone], awake |-> FALSE]
  ELSE LET f == FindZEntry(db, key, xx, override)
       IN IF f.status # "OK" THEN [status |-> f.status, db |-> db, awake |-> FALSE]
          ELSE [status |-> "OK",
                db |-> [f.db EXCEPT ![key] =
                         ZSet({p \in f.db[key].zs : p[1] \notin MembersOf(members)}
                                \cup members)],
                awake |-> f.awake]

\* ------------------------------------------------------------------------
\* The transaction of a connection. The handler of a command runs up to its
\* next Execute, the hop runs its callback on every shard of the
\* transaction, and the handler goes on from there.
TxIdle ==
  [cmd |-> NoZCmd, pc |-> "idle", hop |-> 0, is_last |-> FALSE, todo |-> {},
   maps |-> [s \in Shards |-> OpResultOf("OK", {})], smvec |-> {},
   scheduled |-> FALSE, concluded |-> 0, reply |-> "none"]

\* Transaction::Execute(cb, is_last): the first hop schedules the
\* transaction, which takes the locks of its keys
Execute(txr, maps_status, is_last) ==
  [txr EXCEPT !.pc = IF txr.scheduled THEN "hop" ELSE "scheduling",
              !.hop = @ + 1, !.is_last = is_last,
              !.todo = UniqueShards(txr.cmd),
              !.maps = [s \in Shards |-> OpResultOf(maps_status, {})]]

ScheduleSingleHop(txr, maps_status) == Execute(txr, maps_status, TRUE)

\* Transaction::Conclude
Conclude(txr) == [txr EXCEPT !.concluded = @ + 1]

Return(txr, reply) == [txr EXCEPT !.pc = "returned", !.reply = reply]

FirstError(maps) ==
  maps[CHOOSE s \in Shards :
         /\ maps[s].status # "OK"
         /\ \A o \in Shards : maps[o].status # "OK" => s <= o].status

RECURSIVE UnionMaps(_, _, _)
UnionMaps(maps, s, result) ==
  IF s \notin Shards THEN result
  ELSE UnionMaps(maps, s + 1, UnionScoredMap(result, maps[s].map))

ZUnionFamilyInternal(txr) ==
  IF txr.hop = 0 THEN Execute(txr, "OK", txr.cmd.dest = << >>)
  ELSE IF txr.hop = 1
  THEN IF \E s \in Shards : txr.maps[s].status # "OK"
       THEN Return(txr, FirstError(txr.maps))
       ELSE IF txr.cmd.dest # << >>
            THEN Execute([txr EXCEPT !.smvec = UnionMaps(txr.maps, 0, {})], "OK", TRUE)
            ELSE Return(txr, "array")
  ELSE Return(txr, "long")

ZInterStore(txr) ==
  IF txr.hop = 0 THEN Execute(txr, "SKIPPED", FALSE)
  ELSE IF txr.hop = 1
  THEN IF IntersectResults(txr.maps).status # "OK"
       THEN Return(txr, IntersectResults(txr.maps).status)
       ELSE Execute([txr EXCEPT !.smvec = IntersectResults(txr.maps).map], "OK", TRUE)
  ELSE Return(txr, "long")

\* ZInter with the hop run on the shards without scheduling the transaction
ZInterUnscheduled(txr) ==
  IF txr.hop = 0
  THEN [ScheduleSingleHop(txr, "SKIPPED") EXCEPT !.pc = "hop"]
  ELSE IF IntersectResults(txr.maps).status # "OK"
       THEN Return(txr, IntersectResults(txr.maps).status)
       ELSE Return(txr, "array")

ZInter(txr) ==
  IF txr.hop = 0 THEN ScheduleSingleHop(txr, "SKIPPED")
  ELSE IF IntersectResults(txr.maps).status # "OK"
       THEN Return(txr, IntersectResults(txr.maps).status)
       ELSE Return(txr, "array")

GeoSearchStoreGeneric(txr) ==
  LET sts == txr.maps[Shard(txr.cmd.keys[1])].status
  IN IF txr.hop = 0 THEN Execute(txr, "OK", FALSE)
     ELSE IF txr.hop = 1
     THEN IF sts # "OK"
          THEN Return(Conclude(txr),
                      IF sts = "KEY_NOTFOUND" THEN "empty_array" ELSE sts)
          ELSE Execute(txr, "KEY_NOTFOUND", txr.cmd.dest = << >>)
     ELSE IF txr.hop = 2
     THEN IF txr.cmd.dest = << >> THEN Return(txr, "array")
          ELSE Execute([txr EXCEPT !.smvec = UnionMaps(txr.maps, 0, {})], "OK", TRUE)
     ELSE Return(txr, "long")

\* the handler of the command of the transaction, from where it stands
Handler(txr) ==
  CASE txr.cmd.name \in {"ZUNION", "ZUNIONSTORE"} -> ZUnionFamilyInternal(txr)
    [] txr.cmd.name = "ZINTERSTORE" -> ZInterStore(txr)
    [] txr.cmd.name = "ZINTER" -> ZInter(txr)
    [] txr.cmd.name \in {"GEOSEARCH", "GEORADIUSBYMEMBER"} -> GeoSearchStoreGeneric(txr)

\* store_cb: the shard of the destination stores the result
StoreCb(db, txr, s) ==
  IF s = Shard(txr.cmd.dest[1])
  THEN OpAdd(db, txr.cmd.dest[1], txr.smvec, FALSE, TRUE).db
  ELSE db

\* the callback of the hop on one shard: its result and the database after
HopCb(db, txr, s) ==
  LET c == txr.cmd
      old == txr.maps[s]
  IN CASE c.name \in {"ZUNION", "ZUNIONSTORE"} /\ txr.hop = 1 ->
            [res |-> OpUnion(db, c, s), db |-> db]
       [] c.name \in {"ZINTER", "ZINTERSTORE"} /\ txr.hop = 1 ->
            [res |-> OpInter(db, c, s), db |-> db]
       [] c.name \in {"ZUNIONSTORE", "ZINTERSTORE"} /\ txr.hop = 2 ->
            [res |-> old, db |-> StoreCb(db, txr, s)]
       [] c.name \in {"GEOSEARCH", "GEORADIUSBYMEMBER"} /\ txr.hop = 1 ->
            [res |-> IF s # Shard(c.keys[1]) THEN old
                     ELSE IF c.member # << >>
                          THEN OpScore(db, c.keys[1], c.member[1])
                          ELSE OpKeyExisted(db, c.keys[1]),
             db |-> db]
       [] c.name \in {"GEOSEARCH", "GEORADIUSBYMEMBER"} /\ txr.hop = 2 ->
            [res |-> OpRanges(db, c.keys[1], s), db |-> db]
       [] c.name \in {"GEOSEARCH", "GEORADIUSBYMEMBER"} /\ txr.hop = 3 ->
            [res |-> old, db |-> StoreCb(db, txr, s)]

Unlock(locks, t, keys) == [k \in ZKeys |-> IF k \in keys /\ locks[k] = t THEN 0 ELSE locks[k]]

ShardKeys(c, s) == {k \in KeySet(c) : Shard(k) = s}

\* the shards of the transaction that it has not locked yet
Unlocked(t) == {s \in UniqueShards(tx[t].cmd) : \E k \in ShardKeys(tx[t].cmd, s) : key_locks[k] # t}

\* a connection sends a command: its handler runs up to the first hop
Command(t, c) ==
  /\ tx[t].pc = "idle"
  /\ tx' = [tx EXCEPT ![t] = Handler([TxIdle EXCEPT !.cmd = c])]
  /\ UNCHANGED << zdb, key_locks, observed, watched, bz >>
  /\ UNCHANGED nonZSet

\* scheduling: the shards are locked in their global order, each when the
\* keys of the transaction on it are free
ScheduleShard(t) ==
  /\ tx[t].pc = "scheduling"
  /\ \E s \in Unlocked(t) :
       /\ \A o \in Unlocked(t) : s <= o
       /\ \A k \in ShardKeys(tx[t].cmd, s) : key_locks[k] = 0
       /\ key_locks' = [k \in ZKeys |->
                          IF k \in ShardKeys(tx[t].cmd, s) THEN t ELSE key_locks[k]]
       /\ tx' = [tx EXCEPT ![t] =
                   IF Unlocked(t) = {s}
                   THEN [@ EXCEPT !.pc = "hop", !.scheduled = TRUE] ELSE @]
  /\ UNCHANGED << zdb, observed, watched, bz >>
  /\ UNCHANGED nonZSet

\* one shard runs the callback of the hop; the last hop concludes on it
RunHop(t, s) ==
  /\ tx[t].pc = "hop"
  /\ s \in tx[t].todo
  /\ zdb' = HopCb(zdb, tx[t], s).db
  /\ observed' = [observed EXCEPT ![s] = Append(@, t)]
  /\ key_locks' = IF tx[t].is_last THEN Unlock(key_locks, t, ShardKeys(tx[t].cmd, s))
                  ELSE key_locks
  /\ tx' = [tx EXCEPT ![t] =
              [@ EXCEPT !.maps[s] = HopCb(zdb, tx[t], s).res,
                        !.todo = @ \ {s},
                        !.pc = IF tx[t].todo = {s} THEN "ran" ELSE "hop",
                        !.concluded = IF tx[t].todo = {s} /\ tx[t].is_last
                                      THEN @ + 1 ELSE @]]
  /\ UNCHANGED << watched, bz >>
  /\ UNCHANGED nonZSet

\* the hop is over: the handler goes on to its next hop or to its return
Resume(t) ==
  /\ tx[t].pc = "ran"
  /\ tx' = [tx EXCEPT ![t] = Handler(tx[t])]
  /\ key_locks' = IF Handler(tx[t]).concluded # tx[t].concluded
                  THEN Unlock(key_locks, t, ZKeys) ELSE key_locks
  /\ UNCHANGED << zdb, observed, watched, bz >>
  /\ UNCHANGED nonZSet

NextTx ==
  \/ \E t \in Tx, c \in ZCmds : Command(t, c)
  \/ \E t \in Tx : ScheduleShard(t)
  \/ \E t \in Tx, s \in Shards : RunHop(t, s)
  \/ \E t \in Tx : Resume(t)

\* a client of BZPOPMIN / BZPOPMAX and its reply
NoReply == [kind |-> "none", key |-> 0, member |-> 0, score |-> 0]

BzIdle == [pc |-> "idle", keys |-> << >>, is_max |-> FALSE, deadline |-> FALSE,
           wake_key |-> 0, reply |-> NoReply]

ZStart(db) ==
  /\ zdb = db
  /\ key_locks = [k \in ZKeys |-> 0]
  /\ tx = [t \in Tx |-> TxIdle]
  /\ observed = [s \in Shards |-> << >>]
  /\ watched = [k \in ZKeys |-> << >>]
  /\ bz = [c \in Tx |-> BzIdle]
  /\ zlast = NoCmd
  /\ zobj = [k \in ZObjKeys |-> NoZObj]

ZDbs ==
  {[k \in ZKeys |-> IF k = 0 THEN a ELSE IF k = 1 THEN b ELSE ZNone] :
     a \in {ZSet({<< 1, 1 >>, << 2, 2 >>}), ZStr},
     b \in {ZSet({<< 1, 1 >>}), ZSet({<< 2, 1 >>}), ZStr, ZNone}}

InitZSet == \E db \in ZDbs : ZStart(db)

IdleZSet == ZStart([k \in ZKeys |-> ZNone])

\* ------------------------------------------------------------------------
\* Properties of the transactions
SharedShards(a, b) == {Shard(k) : k \in KeySet(tx[a].cmd) \cap KeySet(tx[b].cmd)}

\* a hop of a ran on the shard before a hop of b
Before(s, a, b) ==
  \E i, j \in 1 .. Len(observed[s]) :
    i < j /\ observed[s][i] = a /\ observed[s][j] = b

\* C6: two transactions whose keys overlap on two or more shards run their
\* hops in the same relative order on every shard they share: no shard runs
\* a hop of the first before a hop of the second while a shard runs a hop of
\* the second before a hop of the first.
C6_SameOrder ==
  \A a, b \in Tx :
    (a # b /\ Cardinality(SharedShards(a, b)) >= 2) =>
      \A s1, s2 \in SharedShards(a, b) : ~(Before(s1, a, b) /\ Before(s2, b, a))

\* two commands over the same keys of two shards both ran, one of them in
\* two hops
C6_Witness ==
  \E a, b \in Tx :
    /\ a # b
    /\ Cardinality(SharedShards(a, b)) >= 2
    /\ tx[a].pc = "returned" /\ tx[b].pc = "returned"
    /\ tx[a].cmd.name = "ZINTER" /\ tx[b].cmd.name = "ZINTERSTORE"
    /\ tx[b].hop = 2
    /\ \A s \in SharedShards(a, b) : Before(s, a, b)

\* C7: a transaction that a command of several hops scheduled is concluded
\* exactly once by the time the command returns, and holds no lock then.
C7_ConcludedOnce ==
  \A t \in Tx :
    (tx[t].pc = "returned" /\ tx[t].scheduled) =>
      /\ tx[t].concluded = 1
      /\ \A k \in ZKeys : key_locks[k] # t

(***************************************************************************)
(* Sorted sets: BZPOPMIN / BZPOPMAX and the writers that wake them         *)
(***************************************************************************)
BzKeys == {0, 1}

\* the order of the entries of a sorted set: by score, then by member
ScoredLeq(p, q) == p[2] < q[2] \/ (p[2] = q[2] /\ p[1] <= q[1])

\* IntervalVisitor::PopListPack with TopNScored(1): the first entry, or the
\* last one in reverse
TopScored(zs, reverse) ==
  CHOOSE p \in zs : \A q \in zs : IF reverse THEN ScoredLeq(q, p) ELSE ScoredLeq(p, q)

\* check tells that the CHECKs of the function hold
OpBZPop(db, key, is_max) ==
  IF FindStatus(db, key) # "OK" \/ db[key].zs = {}
  THEN [check |-> FALSE, res |-> {}, db |-> db]
  ELSE [check |-> TRUE, res |-> {TopScored(db[key].zs, is_max)},
        db |-> [db EXCEPT ![key] =
                  IF db[key].zs = {TopScored(db[key].zs, is_max)} THEN ZNone
                  ELSE ZSet(db[key].zs \ {TopScored(db[key].zs, is_max)})]]

OpRem(db, key, member) ==
  IF FindStatus(db, key) # "OK" THEN db
  ELSE [db EXCEPT ![key] =
          IF MembersOf(db[key].zs) \subseteq {member} THEN ZNone
          ELSE ZSet({p \in db[key].zs : p[1] # member})]

\* the first key of the command that exists: its status and the key
FindFirstNonEmpty(db, keys) ==
  LET found == {i \in 1 .. Len(keys) : db[keys[i]].type # "none"}
      first == CHOOSE i \in found : \A j \in found : i <= j
  IN IF found = {} THEN [status |-> "KEY_NOTFOUND", key |-> 0]
     ELSE [status |-> FindStatus(db, keys[first]), key |-> keys[first]]

RemoveWatcher(w, c) == [k \in ZKeys |-> SelectSeq(w[k], LAMBDA o : o # c)]

AddWatcher(w, c, keys) ==
  [k \in ZKeys |-> IF \E i \in 1 .. Len(keys) : keys[i] = k THEN Append(w[k], c) ELSE w[k]]

\* the reply of BZPopMinMax to the status of RunCbOnFirstNonEmptyBlocking
BZReply(status, key, popped) ==
  IF status = "OK"
  THEN [kind |-> IF Cardinality(popped) = 1 THEN "array" ELSE "check_failed", key |-> key,
        member |-> (CHOOSE p \in popped : TRUE)[1],
        score |-> (CHOOSE p \in popped : TRUE)[2]]
  ELSE [NoReply EXCEPT !.kind = IF status = "WRONG_TYPE" THEN "error" ELSE "null"]

\* BZPOPMIN / BZPOPMAX keys timeout: pops from the first key that holds a
\* sorted set, or registers as a watcher of its keys and blocks
BZPopMinMax(c, keys, is_max, timeout) ==
  /\ bz[c].pc = "idle"
  /\ \A i \in 1 .. Len(keys) : key_locks[keys[i]] = 0
  /\ LET first == FindFirstNonEmpty(zdb, keys)
         pop == OpBZPop(zdb, first.key, is_max)
         cmd == [BzIdle EXCEPT !.keys = keys, !.is_max = is_max, !.deadline = timeout > 0]
     IN IF timeout < 0
        THEN /\ bz' = [bz EXCEPT ![c] = [cmd EXCEPT !.pc = "done", !.reply.kind = "error"]]
             /\ UNCHANGED << zdb, watched >>
        ELSE IF first.status = "KEY_NOTFOUND"
        THEN /\ bz' = [bz EXCEPT ![c] = [cmd EXCEPT !.pc = "blocked"]]
             /\ watched' = AddWatcher(watched, c, keys)
             /\ UNCHANGED zdb
        ELSE IF first.status = "WRONG_TYPE"
        THEN /\ bz' = [bz EXCEPT ![c] =
                         [cmd EXCEPT !.pc = "done", !.reply = BZReply("WRONG_TYPE", 0, {})]]
             /\ UNCHANGED << zdb, watched >>
        ELSE /\ bz' = [bz EXCEPT ![c] =
                         [cmd EXCEPT !.pc = IF pop.check THEN "done" ELSE "check_failed",
                                     !.reply = IF pop.check
                                               THEN BZReply("OK", first.key, pop.res)
                                               ELSE NoReply]]
             /\ zdb' = pop.db
             /\ UNCHANGED watched
  /\ UNCHANGED << key_locks, tx, observed >>
  /\ UNCHANGED nonZSet

\* BlockingController::NotifyPending after a hop that awoke the key: the
\* predicate is evaluated again on the shard and the head of the queue is
\* woken; it runs on the shard before any other transaction
NotifyPending(db, awake, key) ==
  IF awake /\ watched[key] # << >> /\ FindStatus(db, key) = "OK"
  THEN /\ bz' = [bz EXCEPT ![Head(watched[key])] =
                   [@ EXCEPT !.pc = "awakened", !.wake_key = key]]
       /\ watched' = RemoveWatcher(watched, Head(watched[key]))
       /\ key_locks' = [key_locks EXCEPT ![key] = Head(watched[key])]
  ELSE UNCHANGED << bz, watched, key_locks >>

\* ZADD [XX] key score member, by another connection
ZAdd(key, member, score, xx) ==
  /\ key_locks[key] = 0
  /\ zdb' = OpAdd(zdb, key, {<< member, score >>}, xx, FALSE).db
  /\ NotifyPending(zdb', OpAdd(zdb, key, {<< member, score >>}, xx, FALSE).awake, key)
  /\ UNCHANGED << tx, observed >>
  /\ UNCHANGED nonZSet

\* ZREM key member, by another connection
ZRem(key, member) ==
  /\ key_locks[key] = 0
  /\ zdb' = OpRem(zdb, key, member)
  /\ UNCHANGED << key_locks, tx, observed, watched, bz >>
  /\ UNCHANGED nonZSet

\* the woken client runs its callback on the key that woke it, and replies
BZPopRun(c) ==
  /\ bz[c].pc = "awakened"
  /\ LET pop == OpBZPop(zdb, bz[c].wake_key, bz[c].is_max)
     IN /\ zdb' = pop.db
        /\ bz' = [bz EXCEPT ![c] =
                    [@ EXCEPT !.pc = IF pop.check THEN "done" ELSE "check_failed",
                              !.reply = IF pop.check
                                        THEN BZReply("OK", bz[c].wake_key, pop.res)
                                        ELSE NoReply]]
  /\ key_locks' = Unlock(key_locks, c, ZKeys)
  /\ UNCHANGED << tx, observed, watched >>
  /\ UNCHANGED nonZSet

\* the deadline of a blocked client fires, or its connection is cancelled
BZUnblock(c, status) ==
  /\ bz[c].pc = "blocked"
  /\ status = "TIMED_OUT" => bz[c].deadline
  /\ bz' = [bz EXCEPT ![c] = [@ EXCEPT !.pc = "done", !.reply = BZReply(status, 0, {})]]
  /\ watched' = RemoveWatcher(watched, c)
  /\ UNCHANGED << zdb, key_locks, tx, observed >>
  /\ UNCHANGED nonZSet

\* the first client sends any of the commands, the second one a BZPOPMIN of
\* the first key with no deadline
BzArgs(c) ==
  IF c = 1
  THEN [keys : {<< 0 >>, << 0, 1 >>, << 1, 0 >>}, is_max : BOOLEAN, timeout : {0 - 1, 0, 1}]
  ELSE [keys : {<< 0 >>}, is_max : {FALSE}, timeout : {0}]

\* the entries that the writers add: << member, score >>
ZAddArgs == {<< 1, 1 >>, << 2, 1 >>, << 2, 2 >>}

NextBZPop ==
  \/ \E c \in Tx : \E a \in BzArgs(c) : BZPopMinMax(c, a.keys, a.is_max, a.timeout)
  \/ \E key \in BzKeys, e \in ZAddArgs, xx \in BOOLEAN : ZAdd(key, e[1], e[2], xx)
  \/ \E key \in BzKeys, member \in Members : ZRem(key, member)
  \/ \E c \in Tx : BZPopRun(c)
  \/ \E c \in Tx, status \in {"TIMED_OUT", "CANCELLED"} : BZUnblock(c, status)

InitBZ == \E b \in {ZNone, ZStr} : ZStart([k \in ZKeys |-> IF k = 1 THEN b ELSE ZNone])

\* ------------------------------------------------------------------------
\* C8: a sorted set created at a key that clients are blocked on wakes the
\* first of them, which then pops; a client replies with an array only in a
\* step that removes exactly the entry of the reply, the lowest or the
\* highest one, from a sorted set that holds entries at the key of the
\* reply, and deletes the key when that empties it; a blocked client whose
\* deadline fires or which is cancelled replies with a null array and leaves
\* the sets alone; a client blocks only when none of its keys exists.
C8_BZPop ==
  [][/\ \A k \in ZKeys :
          (zdb[k].type = "none" /\ zdb'[k].type = "zset" /\ watched[k] # << >>) =>
            /\ bz[Head(watched[k])].pc = "blocked"
            /\ bz'[Head(watched[k])].pc = "awakened"
            /\ bz'[Head(watched[k])].wake_key = k
     /\ \A c \in Tx :
          /\ bz'[c].pc # "check_failed"
          /\ (bz[c].pc # "blocked" /\ bz'[c].pc = "blocked") =>
               \A i \in 1 .. Len(bz'[c].keys) : zdb[bz'[c].keys[i]].type = "none"
          /\ (bz[c].pc = "awakened" /\ bz'[c] # bz[c]) =>
               (bz'[c].pc = "done" /\ bz'[c].reply.kind = "array"
                  /\ bz'[c].reply.key = bz[c].wake_key)
          /\ (bz[c].pc = "blocked" /\ bz'[c].pc = "done") =>
               (bz'[c].reply.kind = "null" /\ zdb' = zdb)
          /\ (bz'[c] # bz[c] /\ bz'[c].reply.kind = "array") =>
               LET k == bz'[c].reply.key
                   p == << bz'[c].reply.member, bz'[c].reply.score >>
               IN /\ zdb[k].type = "zset"
                  /\ p \in zdb[k].zs
                  /\ \A q \in zdb[k].zs :
                       IF bz'[c].is_max THEN ScoredLeq(q, p) ELSE ScoredLeq(p, q)
                  /\ zdb' = [zdb EXCEPT ![k] = IF zdb[k].zs = {p} THEN ZNone
                                               ELSE ZSet(zdb[k].zs \ {p})]]_vars

\* a client blocked on two absent keys was woken by the creation of the
\* second one and popped the entry
C8_Witness ==
  \E c \in Tx :
    /\ bz[c].pc = "done"
    /\ bz[c].keys = << 0, 1 >>
    /\ bz[c].wake_key = 1
    /\ bz[c].reply.kind = "array"
    /\ bz[c].reply.key = 1
    /\ zdb[1].type = "none"

\* a client whose deadline fired replied with a null array
C8_WitnessTimedOut ==
  \E c \in Tx : bz[c].pc = "done" /\ bz[c].deadline /\ bz[c].reply.kind = "null"

(***************************************************************************)
(* Sorted sets (zset_family.cc): the commands of one connection on one     *)
(* key: ZADD, ZADD INCR, ZINCRBY, ZREM, ranks and lex ranges               *)
(***************************************************************************)
\* the members "a", "ab" and "b"
ZMembers == {<< 97 >>, << 97, 98 >>, << 98 >>}

\* the score inf of a command
kInf == 100

\* the largest finite score of the model
MaxScore == 2

IsFinite(score) == score \notin {kInf, 0 - kInf, kNaN}

ZScores == {0, 1, kInf, 0 - kInf}

ZIncrs == {0, 1, kInf, 0 - kInf, kNaN}

ZCmdKeys == {1}

\* the sum of two scores: inf + -inf is not a number
AddScores(a, b) ==
  IF kNaN \in {a, b} \/ {a, b} = {kInf, 0 - kInf} THEN kNaN
  ELSE IF kInf \in {a, b} THEN kInf
  ELSE IF (0 - kInf) \in {a, b} THEN 0 - kInf
  ELSE a + b

\* RobjWrapper::ZsetAdd with the flags ZADD_IN_INCR, ZADD_IN_NX, ZADD_IN_XX:
\* retval 0 tells that the score is not a number
ZsetAdd(zs, score, member, incr, nx, xx) ==
  IF score = kNaN
  THEN [retval |-> 0, nop |-> FALSE, added |-> FALSE, updated |-> FALSE,
        new_score |-> 0, zs |-> zs]
  ELSE IF member \in MembersOf(zs)
  THEN IF nx
       THEN [retval |-> 1, nop |-> TRUE, added |-> FALSE, updated |-> FALSE,
             new_score |-> 0, zs |-> zs]
       ELSE Bind(IF incr THEN AddScores(score, ScoreIn(zs, member)) ELSE score,
                 LAMBDA new :
              IF new = kNaN
              THEN [retval |-> 0, nop |-> FALSE, added |-> FALSE, updated |-> FALSE,
                    new_score |-> 0, zs |-> zs]
              ELSE [retval |-> 1, nop |-> FALSE, added |-> FALSE,
                    updated |-> new # ScoreIn(zs, member), new_score |-> new,
                    zs |-> {p \in zs : p[1] # member} \cup {<< member, new >>}])
  ELSE IF xx
  THEN [retval |-> 1, nop |-> TRUE, added |-> FALSE, updated |-> FALSE,
        new_score |-> 0, zs |-> zs]
  ELSE [retval |-> 1, nop |-> FALSE, added |-> TRUE, updated |-> FALSE,
        new_score |-> score, zs |-> zs \cup {<< member, score >>}]

\* OpAdd with ZADD_IN_INCR and one member that adds the increment even when
\* the sum is not a number
OpAddIncrAnyway(db, key, score, member, nx, xx) ==
  Bind(FindZEntry(db, key, xx, FALSE), LAMBDA f :
    IF f.status # "OK"
    THEN [status |-> f.status, db |-> db, is_nan |-> FALSE, new_score |-> 0]
    ELSE Bind(ZsetAdd(f.db[key].zs, score, member, TRUE, nx, xx), LAMBDA r :
           IF r.retval = 0
           THEN [status |-> "OK",
                 db |-> [f.db EXCEPT ![key] =
                           ZSet({p \in f.db[key].zs : p[1] # member}
                                  \cup {<< member, score >>})],
                 is_nan |-> TRUE, new_score |-> 0]
           ELSE [status |-> IF r.nop THEN "SKIPPED" ELSE "OK",
                 db |-> [f.db EXCEPT ![key] = ZSet(r.zs)], is_nan |-> FALSE,
                 new_score |-> r.new_score]))

\* OpAdd with ZADD_IN_INCR and one member
OpAddIncr(db, key, score, member, nx, xx) ==
  Bind(FindZEntry(db, key, xx, FALSE), LAMBDA f :
    IF f.status # "OK"
    THEN [status |-> f.status, db |-> db, is_nan |-> FALSE, new_score |-> 0]
    ELSE Bind(ZsetAdd(f.db[key].zs, score, member, TRUE, nx, xx), LAMBDA r :
           IF r.retval = 0
           THEN [status |-> "OK", db |-> f.db, is_nan |-> TRUE, new_score |-> 0]
           ELSE [status |-> IF r.nop THEN "SKIPPED" ELSE "OK",
                 db |-> [f.db EXCEPT ![key] = ZSet(r.zs)], is_nan |-> FALSE,
                 new_score |-> r.new_score]))

\* the reply of ZAddGeneric to a ZADD with INCR
IncrReply(r) ==
  IF r.status = "WRONG_TYPE" THEN "kWrongTypeErr"
  ELSE IF r.status \in {"KEY_NOTFOUND", "SKIPPED"} THEN "null"
  ELSE IF r.is_nan THEN "kScoreNaN"
  ELSE "double"

\* a command of the connection ends: the database, the history
CommitZ(cmd, key, member, incr, reply, new_score, db) ==
  /\ zdb' = db
  /\ zlast' = [cmd |-> cmd, key |-> key, member |-> member, incr |-> incr,
               reply |-> reply, new_score |-> new_score, prev |-> zdb, next |-> db]
  /\ UNCHANGED << key_locks, tx, observed, watched, bz >>
  /\ UNCHANGED << tvars, jvars, hvars, evars, svars >>

\* the scores of the model: a finite score stays within MaxScore
InModel(db) ==
  \A k \in ZCmdKeys : \A p \in db[k].zs : IsFinite(p[2]) => p[2] \in 0 .. MaxScore

\* ZADD key score member
ZAddOne(key, score, member) ==
  CommitZ("ZADD", key, member, score, "long", 0,
          OpAdd(zdb, key, {<< member, score >>}, FALSE, FALSE).db)

\* ZADD key [XX] INCR increment member: ParseDouble refuses nan
ZAddIncr(key, incr, member, xx) ==
  IF incr = kNaN
  THEN CommitZ("ZADD INCR", key, member, incr, "kInvalidFloatErr", 0, zdb)
  ELSE \E r \in {OpAddIncr(zdb, key, incr, member, FALSE, xx)} :
         /\ InModel(r.db)
         /\ CommitZ("ZADD INCR", key, member, incr, IncrReply(r), r.new_score, r.db)

\* a ZINCRBY that sets the score to the increment
ZIncrBySetsScore(key, incr, member) ==
  IF incr = kNaN
  THEN CommitZ("ZINCRBY", key, member, incr, "kScoreNaN", 0, zdb)
  ELSE \E r \in {OpAdd(zdb, key, {<< member, incr >>}, FALSE, FALSE)} :
         /\ InModel(r.db)
         /\ CommitZ("ZINCRBY", key, member, incr,
                    IF r.status = "OK" THEN "double" ELSE "kWrongTypeErr", incr, r.db)

\* ZINCRBY key increment member
ZIncrBy(key, incr, member) ==
  IF incr = kNaN
  THEN CommitZ("ZINCRBY", key, member, incr, "kScoreNaN", 0, zdb)
  ELSE \E r \in {OpAddIncr(zdb, key, incr, member, FALSE, FALSE)} :
         /\ InModel(r.db)
         /\ CommitZ("ZINCRBY", key, member, incr, IncrReply(r), r.new_score, r.db)

\* ZREM key member
ZRemOne(key, member) ==
  CommitZ("ZREM", key, member, 0, "long", 0, OpRem(zdb, key, member))

NextZCmd ==
  \/ \E key \in ZCmdKeys, score \in ZScores, member \in ZMembers :
       ZAddOne(key, score, member)
  \/ \E key \in ZCmdKeys, incr \in ZIncrs, member \in ZMembers, xx \in BOOLEAN :
       ZAddIncr(key, incr, member, xx)
  \/ \E key \in ZCmdKeys, incr \in ZIncrs, member \in ZMembers :
       ZIncrBy(key, incr, member)
  \/ \E key \in ZCmdKeys, member \in ZMembers : ZRemOne(key, member)

\* the member of the last command in the sorted set before and after it
HadMember == zlast.member \in MembersOf(zlast.prev[zlast.key].zs)

ScoreBefore == ScoreIn(zlast.prev[zlast.key].zs, zlast.member)

ScoreAfter == ScoreIn(zlast.next[zlast.key].zs, zlast.member)

\* an increment whose sum with the stored score is not a number
SumIsNaN ==
  /\ zlast.incr # kNaN
  /\ zlast.prev[zlast.key].type = "zset"
  /\ HadMember
  /\ AddScores(zlast.incr, ScoreBefore) = kNaN

\* C16 as stated: a ZADD with INCR or a ZINCRBY whose increment is nan, or
\* whose resulting score is not a number, replies 'resulting score is not a
\* number (NaN)' and leaves the stored score of the member as it was.
C16_NaNReply ==
  (/\ zlast.cmd \in {"ZADD INCR", "ZINCRBY"}
   /\ zlast.prev[zlast.key].type # "string"
   /\ (zlast.incr = kNaN \/ SumIsNaN)) =>
    /\ zlast.reply = "kScoreNaN"
    /\ zlast.next = zlast.prev

\* C16, amended: a ZINCRBY whose increment is nan, and a ZADD with INCR or a
\* ZINCRBY whose resulting score is not a number (inf + -inf), reply
\* 'resulting score is not a number (NaN)'; a ZADD with INCR whose increment
\* is nan replies 'value is not a valid float'; in each case the sorted set
\* and the stored score of the member are left as they were.
C16_NaNRejected ==
  (/\ zlast.cmd \in {"ZADD INCR", "ZINCRBY"}
   /\ zlast.prev[zlast.key].type # "string"
   /\ (zlast.incr = kNaN \/ SumIsNaN)) =>
    /\ zlast.reply = IF zlast.cmd = "ZADD INCR" /\ zlast.incr = kNaN
                     THEN "kInvalidFloatErr" ELSE "kScoreNaN"
    /\ zlast.next = zlast.prev

\* C16 witness: ZADD INCR of inf on a member whose score is -inf
C16_Witness ==
  /\ zlast.cmd = "ZADD INCR"
  /\ SumIsNaN
  /\ ScoreAfter = 0 - kInf
  /\ Cardinality(zlast.next[zlast.key].zs) >= 2

\* a ZINCRBY with the increment nan on a member of the sorted set
C16_WitnessNaNIncr ==
  /\ zlast.cmd = "ZINCRBY"
  /\ zlast.incr = kNaN
  /\ zlast.prev[zlast.key].type = "zset"
  /\ HadMember

\* C19 as stated: ZINCRBY key 0 member changes nothing: the keys, the
\* members and the scores are the same after the command as before it.
C19_ZIncrByZero ==
  (zlast.cmd = "ZINCRBY" /\ zlast.incr = 0) => zlast.next = zlast.prev

\* C19, amended: ZINCRBY key 0 member changes nothing when the sorted set
\* holds the member, and replies its score; when it does not, the member is
\* added with the score 0, and the key is created if it was absent.
C19_ZIncrByZeroMember ==
  (zlast.cmd = "ZINCRBY" /\ zlast.incr = 0 /\ zlast.prev[zlast.key].type # "string") =>
    IF zlast.prev[zlast.key].type = "zset" /\ HadMember
    THEN /\ zlast.next = zlast.prev
         /\ zlast.reply = "double"
         /\ zlast.new_score = ScoreBefore
    ELSE /\ zlast.next =
              [zlast.prev EXCEPT ![zlast.key] =
                 ZSet(zlast.prev[zlast.key].zs \cup {<< zlast.member, 0 >>})]
         /\ zlast.reply = "double"
         /\ zlast.new_score = 0

\* C19 witness: ZINCRBY key 0 member on a member with a score other than 0
\* in a sorted set with another member
C19_Witness ==
  /\ zlast.cmd = "ZINCRBY"
  /\ zlast.incr = 0
  /\ zlast.prev[zlast.key].type = "zset"
  /\ HadMember
  /\ ScoreBefore = 1
  /\ Cardinality(zlast.prev[zlast.key].zs) >= 2

\* ZINCRBY key 0 member created the key
C19_WitnessCreated ==
  /\ zlast.cmd = "ZINCRBY"
  /\ zlast.incr = 0
  /\ zlast.prev[zlast.key].type = "none"
  /\ zlast.next[zlast.key].type = "zset"

\* ------------------------------------------------------------------------
\* Ranks and lex ranges. A listpack holds the (member, score) pairs in the
\* order of the sorted set: by score, members of equal score by their bytes.

\* a < b for strings: memcmp, then the shorter string first
LexLess(a, b) ==
  \E i \in 1 .. Len(b) :
    /\ i <= Len(a) + 1
    /\ \A j \in 1 .. i - 1 : a[j] = b[j]
    /\ (i = Len(a) + 1 \/ a[i] < b[i])

ZslLess(p, q) == p[2] < q[2] \/ (p[2] = q[2] /\ LexLess(p[1], q[1]))

\* the pairs of a sorted set in its order, as zzlInsert keeps a listpack
RECURSIVE ZslSorted(_)
ZslSorted(zs) ==
  IF zs = {} THEN << >>
  ELSE Bind(CHOOSE p \in zs : \A q \in zs \ {p} : ZslLess(p, q), LAMBDA p :
         << p >> \o ZslSorted(zs \ {p}))

Encodings == {"listpack", "skiplist"}

\* SortedMap::GetRank
GetRank(zs, member, reverse) ==
  IF member \notin MembersOf(zs) THEN [status |-> "KEY_NOTFOUND", val |-> 0]
  ELSE [status |-> "OK",
        val |-> Cardinality({p \in zs :
                  IF reverse THEN ZslLess(<< member, ScoreIn(zs, member) >>, p)
                  ELSE ZslLess(p, << member, ScoreIn(zs, member) >>)})]

\* the loop of OpRank over a listpack, with ranks that start at 1
RankListPackFromOne(zl, member, reverse) ==
  Bind({i \in 1 .. Len(zl) : zl[i][1] = member}, LAMBDA found :
    IF found = {} THEN [status |-> "KEY_NOTFOUND", val |-> 0]
    ELSE Bind(CHOOSE i \in found : \A j \in found : i <= j, LAMBDA rank :
           [status |-> "OK", val |-> IF reverse THEN Len(zl) - rank ELSE rank]))

\* the loop of OpRank over a listpack
RankListPack(zl, member, reverse) ==
  Bind({i \in 1 .. Len(zl) : zl[i][1] = member}, LAMBDA found :
    IF found = {} THEN [status |-> "KEY_NOTFOUND", val |-> 0]
    ELSE Bind(CHOOSE i \in found : \A j \in found : i <= j, LAMBDA rank :
           [status |-> "OK", val |-> IF reverse THEN Len(zl) - rank ELSE rank - 1]))

\* OpRank on the object at key, in the given encoding
OpRank(db, key, member, reverse, encoding) ==
  IF FindStatus(db, key) # "OK" THEN [status |-> FindStatus(db, key), val |-> 0]
  ELSE IF encoding = "listpack"
  THEN RankListPack(ZslSorted(db[key].zs), member, reverse)
  ELSE GetRank(db[key].zs, member, reverse)

\* C14: after any sequence of ZADD, ZINCRBY and ZREM on a key, ZRANK orders
\* the members by score and members of equal score by their bytes, ranks
\* start at 0, and ZRANK(m) + ZREVRANK(m) = ZCARD - 1, in both encodings.
C14_Ranks ==
  \A key \in ZCmdKeys : zdb[key].type = "zset" =>
    \A encoding \in Encodings : \A p \in zdb[key].zs :
      /\ OpRank(zdb, key, p[1], FALSE, encoding).status = "OK"
      /\ OpRank(zdb, key, p[1], TRUE, encoding).status = "OK"
      /\ OpRank(zdb, key, p[1], FALSE, encoding).val \in 0 .. Cardinality(zdb[key].zs) - 1
      /\ OpRank(zdb, key, p[1], FALSE, encoding).val
           + OpRank(zdb, key, p[1], TRUE, encoding).val = Cardinality(zdb[key].zs) - 1
      /\ \A q \in zdb[key].zs :
           (p[2] < q[2] \/ (p[2] = q[2] /\ LexLess(p[1], q[1]))) =>
             OpRank(zdb, key, p[1], FALSE, encoding).val
               < OpRank(zdb, key, q[1], FALSE, encoding).val

\* C14 witness: three members, two of them with the same score and one that
\* is a prefix of another, after a ZREM
C14_Witness ==
  /\ zlast.cmd = "ZREM"
  /\ zdb[1].type = "zset"
  /\ Cardinality(zdb[1].zs) = 2
  /\ \E p \in zdb[1].zs, q \in zdb[1].zs : p # q /\ p[2] = q[2] /\ Len(p[1]) < Len(q[1])
  /\ \E p \in zlast.prev[1].zs : p[2] = kInf

\* ---- lex ranges
\* the bounds of a lex range: -, +, [a, (a, [ab, (ab, [b, (b and one that
\* does not parse
LexArgs ==
  {<< 45 >>, << 43 >>, << 91, 97 >>, << 40, 97 >>, << 91, 97, 98 >>, << 40, 97, 98 >>,
   << 91, 98 >>, << 40, 98 >>, << 97 >>}

ParseLexBound(src) ==
  IF src = << >> THEN [ok |-> FALSE, type |-> "CLOSED", val |-> << >>]
  ELSE IF src = << 43 >> THEN [ok |-> TRUE, type |-> "PLUS_INF", val |-> << >>]
  ELSE IF src = << 45 >> THEN [ok |-> TRUE, type |-> "MINUS_INF", val |-> << >>]
  ELSE IF src[1] = 40 THEN [ok |-> TRUE, type |-> "OPEN", val |-> Tail(src)]
  ELSE IF src[1] = 91 THEN [ok |-> TRUE, type |-> "CLOSED", val |-> Tail(src)]
  ELSE [ok |-> FALSE, type |-> "CLOSED", val |-> << >>]

\* cminstring, cmaxstring or a string
GetLexStr(bound) ==
  IF bound.type = "MINUS_INF" THEN [kind |-> "cminstring", val |-> << >>]
  ELSE IF bound.type = "PLUS_INF" THEN [kind |-> "cmaxstring", val |-> << >>]
  ELSE [kind |-> "str", val |-> bound.val]

\* a range of the bounds as they are given, the reverse order too
GetLexRangeAsGiven(reverse, li) ==
  [min |-> GetLexStr(li[1]), max |-> GetLexStr(li[2]),
   minex |-> li[1].type = "OPEN", maxex |-> li[2].type = "OPEN"]

GetLexRange(reverse, li) ==
  Bind(IF reverse THEN << li[2], li[1] >> ELSE li, LAMBDA interval :
    [min |-> GetLexStr(interval[1]), max |-> GetLexStr(interval[2]),
     minex |-> interval[1].type = "OPEN", maxex |-> interval[2].type = "OPEN"])

\* sdscmplex of t_zset.c: -1, 0 or 1
sdscmplex(a, b) ==
  IF a = b THEN 0
  ELSE IF a.kind = "cminstring" \/ b.kind = "cmaxstring" THEN 0 - 1
  ELSE IF a.kind = "cmaxstring" \/ b.kind = "cminstring" THEN 1
  ELSE IF LexLess(a.val, b.val) THEN 0 - 1
  ELSE 1

LexStr(member) == [kind |-> "str", val |-> member]

zzlLexValueGteMin(member, range) ==
  IF range.minex THEN sdscmplex(LexStr(member), range.min) > 0
  ELSE sdscmplex(LexStr(member), range.min) >= 0

zzlLexValueLteMax(member, range) ==
  IF range.maxex THEN sdscmplex(LexStr(member), range.max) < 0
  ELSE sdscmplex(LexStr(member), range.max) <= 0

zzlIsInLexRange(zl, range) ==
  /\ ~(sdscmplex(range.min, range.max) > 0)
  /\ ~(sdscmplex(range.min, range.max) = 0 /\ (range.minex \/ range.maxex))
  /\ Len(zl) > 0
  /\ zzlLexValueGteMin(zl[Len(zl)][1], range)
  /\ zzlLexValueLteMax(zl[1][1], range)

\* the position of the first and of the last entry in the range, 0 if none
zzlFirstInLexRange(zl, range) ==
  IF ~zzlIsInLexRange(zl, range) THEN 0
  ELSE Bind({i \in 1 .. Len(zl) : zzlLexValueGteMin(zl[i][1], range)}, LAMBDA S :
         IF S = {} THEN 0
         ELSE Bind(CHOOSE i \in S : \A j \in S : i <= j, LAMBDA i :
                IF zzlLexValueLteMax(zl[i][1], range) THEN i ELSE 0))

zzlLastInLexRange(zl, range) ==
  IF ~zzlIsInLexRange(zl, range) THEN 0
  ELSE Bind({i \in 1 .. Len(zl) : zzlLexValueLteMax(zl[i][1], range)}, LAMBDA S :
         IF S = {} THEN 0
         ELSE Bind(CHOOSE i \in S : \A j \in S : i >= j, LAMBDA i :
                IF zzlLexValueGteMin(zl[i][1], range) THEN i ELSE 0))

\* the second loop of ExtractListPack, from the entry at i on
RECURSIVE ExtractFrom(_, _, _, _)
ExtractFrom(zl, i, range, reverse) ==
  IF i < 1 \/ i > Len(zl) THEN << >>
  ELSE IF reverse /\ ~zzlLexValueGteMin(zl[i][1], range) THEN << >>
  ELSE IF ~reverse /\ ~zzlLexValueLteMax(zl[i][1], range) THEN << >>
  ELSE << zl[i][1] >> \o ExtractFrom(zl, IF reverse THEN i - 1 ELSE i + 1, range, reverse)

\* IntervalVisitor::ExtractListPack of a lex range, offset 0 and no limit
ExtractListPack(zl, range, reverse) ==
  ExtractFrom(zl, IF reverse THEN zzlLastInLexRange(zl, range)
                  ELSE zzlFirstInLexRange(zl, range), range, reverse)

\* SortedMap::GetRange of a lex range
GetLexRangeOf(zs, range, reverse) ==
  Bind(ZslSorted({p \in zs : zzlLexValueGteMin(p[1], range)
                            /\ zzlLexValueLteMax(p[1], range)}), LAMBDA seq :
    [i \in 1 .. Len(seq) |-> IF reverse THEN seq[Len(seq) + 1 - i][1] ELSE seq[i][1]])

\* ZRANGEBYLEX key min max and ZREVRANGEBYLEX key max min: the two bounds
\* are parsed in the order of the arguments
ZRangeByLexInternal(db, key, first_s, second_s, reverse, encoding) ==
  IF ~ParseLexBound(first_s).ok \/ ~ParseLexBound(second_s).ok
  THEN [status |-> "kLexRangeErr", res |-> << >>]
  ELSE IF FindStatus(db, key) # "OK" THEN [status |-> FindStatus(db, key), res |-> << >>]
  ELSE Bind(GetLexRange(reverse, << ParseLexBound(first_s), ParseLexBound(second_s) >>),
            LAMBDA range :
         [status |-> "OK",
          res |-> IF encoding = "listpack"
                  THEN ExtractListPack(ZslSorted(db[key].zs), range, reverse)
                  ELSE GetLexRangeOf(db[key].zs, range, reverse)])

\* ParseLimit: LIMIT offset count, a negative count meaning no limit
ParseLimit(offset_arg, limit_arg) ==
  IF offset_arg < 0 \/ offset_arg > UINT32_MAX \/ limit_arg > UINT32_MAX
  THEN [ok |-> FALSE, offset |-> 0, limit |-> 0]
  ELSE [ok |-> TRUE, offset |-> offset_arg,
        limit |-> IF limit_arg < 0 THEN UINT32_MAX ELSE limit_arg]

\* the first loop of ExtractListPack: offset steps from the entry at i,
\* without a look at the range
SkipOffset(zl, i, reverse, offset) ==
  IF i < 1 \/ i > Len(zl) THEN 0
  ELSE Bind(IF reverse THEN i - offset ELSE i + offset, LAMBDA j :
         IF j < 1 \/ j > Len(zl) THEN 0 ELSE j)

\* the second loop of ExtractListPack, at most limit entries
RECURSIVE ExtractLimited(_, _, _, _, _)
ExtractLimited(zl, i, range, reverse, limit) ==
  IF i < 1 \/ i > Len(zl) \/ limit = 0 THEN << >>
  ELSE IF reverse /\ ~zzlLexValueGteMin(zl[i][1], range) THEN << >>
  ELSE IF ~reverse /\ ~zzlLexValueLteMax(zl[i][1], range) THEN << >>
  ELSE << zl[i][1] >> \o ExtractLimited(zl, IF reverse THEN i - 1 ELSE i + 1,
                                        range, reverse, limit - 1)

\* IntervalVisitor::ExtractListPack of a lex range with params_.offset and
\* params_.limit
ExtractListPackParams(zl, range, reverse, params) ==
  ExtractLimited(zl,
                 SkipOffset(zl, IF reverse THEN zzlLastInLexRange(zl, range)
                                ELSE zzlFirstInLexRange(zl, range),
                            reverse, params.offset),
                 range, reverse, params.limit)

\* seq without its first offset entries, cut after limit entries
Slice(seq, offset, limit) ==
  SubSeq(seq, offset + 1, IF offset + limit < Len(seq) THEN offset + limit ELSE Len(seq))

\* SortedMap::GetLexRange with an offset and a limit
GetLexRangeParams(zs, range, reverse, params) ==
  Slice(GetLexRangeOf(zs, range, reverse), params.offset, params.limit)

\* ZRangeGeneric of a lex interval with the range parameters of the caller
ZRangeGenericLex(db, key, first_s, second_s, reverse, encoding, params) ==
  IF ~ParseLexBound(first_s).ok \/ ~ParseLexBound(second_s).ok
  THEN [status |-> "kLexRangeErr", res |-> << >>]
  ELSE IF FindStatus(db, key) # "OK" THEN [status |-> FindStatus(db, key), res |-> << >>]
  ELSE Bind(GetLexRange(reverse, << ParseLexBound(first_s), ParseLexBound(second_s) >>),
            LAMBDA range :
         [status |-> "OK",
          res |-> IF encoding = "listpack"
                  THEN ExtractListPackParams(ZslSorted(db[key].zs), range, reverse, params)
                  ELSE GetLexRangeParams(db[key].zs, range, reverse, params)])

\* ZRANGE key min max BYLEX [REV] LIMIT offset count
ZRangeByLexLimit(db, key, first_s, second_s, reverse, encoding, offset_arg, limit_arg) ==
  IF ~ParseLimit(offset_arg, limit_arg).ok
  THEN [status |-> "kInvalidIntErr", res |-> << >>]
  ELSE ZRangeGenericLex(db, key, first_s, second_s, reverse, encoding,
                        ParseLimit(offset_arg, limit_arg))

\* ZRANGEBYLEX and ZREVRANGEBYLEX with LIMIT offset count: the parsed limit
\* is overwritten by offset 0 and count kuint32max before the range is read
ZRangeByLexInternalLimit(db, key, first_s, second_s, reverse, encoding, offset_arg, limit_arg) ==
  IF ~ParseLimit(offset_arg, limit_arg).ok
  THEN [status |-> "kInvalidIntErr", res |-> << >>]
  ELSE ZRangeGenericLex(db, key, first_s, second_s, reverse, encoding,
                        [ParseLimit(offset_arg, limit_arg) EXCEPT
                           !.offset = 0, !.limit = UINT32_MAX])

\* a member is inside the interval of two parsed bounds
LexInside(member, lo, hi) ==
  /\ CASE lo.type = "MINUS_INF" -> TRUE
       [] lo.type = "PLUS_INF" -> FALSE
       [] lo.type = "CLOSED" -> ~LexLess(member, lo.val)
       [] lo.type = "OPEN" -> LexLess(lo.val, member)
  /\ CASE hi.type = "PLUS_INF" -> TRUE
       [] hi.type = "MINUS_INF" -> FALSE
       [] hi.type = "CLOSED" -> ~LexLess(hi.val, member)
       [] hi.type = "OPEN" -> LexLess(member, hi.val)

\* the strings of a set in ascending order
RECURSIVE LexSorted(_)
LexSorted(S) ==
  IF S = {} THEN << >>
  ELSE Bind(CHOOSE m \in S : \A n \in S \ {m} : LexLess(m, n), LAMBDA m :
         << m >> \o LexSorted(S \ {m}))

Reversed(seq) == [i \in 1 .. Len(seq) |-> seq[Len(seq) + 1 - i]]

EqualScores(zs) == \A p \in zs, q \in zs : p[2] = q[2]

\* C15: over members of equal score ZRANGEBYLEX key min max returns exactly
\* the members inside the interval, with open and closed bounds, in
\* ascending order, and ZREVRANGEBYLEX key max min returns the same members
\* in descending order, in both encodings.
C15_LexRange ==
  \A key \in ZCmdKeys : (zdb[key].type = "zset" /\ EqualScores(zdb[key].zs)) =>
    \A encoding \in Encodings : \A min_s \in LexArgs, max_s \in LexArgs :
      (ParseLexBound(min_s).ok /\ ParseLexBound(max_s).ok) =>
        /\ ZRangeByLexInternal(zdb, key, min_s, max_s, FALSE, encoding) =
             [status |-> "OK",
              res |-> LexSorted({m \in MembersOf(zdb[key].zs) :
                         LexInside(m, ParseLexBound(min_s), ParseLexBound(max_s))})]
        /\ ZRangeByLexInternal(zdb, key, max_s, min_s, TRUE, encoding) =
             [status |-> "OK",
              res |-> Reversed(LexSorted({m \in MembersOf(zdb[key].zs) :
                         LexInside(m, ParseLexBound(min_s), ParseLexBound(max_s))}))]

\* C15 witness: over a, ab and b with one score ZRANGEBYLEX key [a (b gives
\* a, ab and ZREVRANGEBYLEX key (b [a gives ab, a
C15_Witness ==
  /\ zdb[1].type = "zset"
  /\ MembersOf(zdb[1].zs) = ZMembers
  /\ EqualScores(zdb[1].zs)
  /\ ZRangeByLexInternal(zdb, 1, << 91, 97 >>, << 40, 98 >>, FALSE, "listpack").res
       = << << 97 >>, << 97, 98 >> >>
  /\ ZRangeByLexInternal(zdb, 1, << 40, 98 >>, << 91, 97 >>, TRUE, "listpack").res
       = << << 97, 98 >>, << 97 >> >>

LimitOffsets == {0, 1, 2}
LimitCounts == {0 - 1, 0, 1, 2}

\* the members of key inside the interval, ascending or descending
LexMatching(key, min_s, max_s, reverse) ==
  Bind(LexSorted({m \in MembersOf(zdb[key].zs) :
                    LexInside(m, ParseLexBound(min_s), ParseLexBound(max_s))}),
       LAMBDA seq : IF reverse THEN Reversed(seq) ELSE seq)

\* the slice LIMIT offset count names, a negative count meaning no limit
LimitOf(seq, offset, count) ==
  Slice(seq, offset, IF count < 0 THEN Len(seq) ELSE count)

\* C33: ZRANGEBYLEX and ZREVRANGEBYLEX key min max LIMIT offset count skip
\* the first offset members of the matching lex range and return at most
\* count of them, a negative count meaning no limit, which is what
\* ZRANGE ... BYLEX LIMIT offset count returns.
C33_LexLimit ==
  \A key \in ZCmdKeys : (zdb[key].type = "zset" /\ EqualScores(zdb[key].zs)) =>
    \A encoding \in Encodings : \A min_s \in LexArgs, max_s \in LexArgs :
      (ParseLexBound(min_s).ok /\ ParseLexBound(max_s).ok) =>
        \A offset \in LimitOffsets, count \in LimitCounts :
          /\ ZRangeByLexInternalLimit(zdb, key, min_s, max_s, FALSE, encoding, offset, count)
               = [status |-> "OK",
                  res |-> LimitOf(LexMatching(key, min_s, max_s, FALSE), offset, count)]
          /\ ZRangeByLexInternalLimit(zdb, key, max_s, min_s, TRUE, encoding, offset, count)
               = [status |-> "OK",
                  res |-> LimitOf(LexMatching(key, min_s, max_s, TRUE), offset, count)]
          /\ ZRangeByLexInternalLimit(zdb, key, min_s, max_s, FALSE, encoding, offset, count)
               = ZRangeByLexLimit(zdb, key, min_s, max_s, FALSE, encoding, offset, count)

\* ZRANGE key min max BYLEX LIMIT offset count returns the slice of the
\* matching members, in both encodings and both directions
C33_ZRangeLimit ==
  \A key \in ZCmdKeys : (zdb[key].type = "zset" /\ EqualScores(zdb[key].zs)) =>
    \A encoding \in Encodings : \A min_s \in LexArgs, max_s \in LexArgs :
      (ParseLexBound(min_s).ok /\ ParseLexBound(max_s).ok) =>
        \A offset \in LimitOffsets, count \in LimitCounts :
          /\ ZRangeByLexLimit(zdb, key, min_s, max_s, FALSE, encoding, offset, count)
               = [status |-> "OK",
                  res |-> LimitOf(LexMatching(key, min_s, max_s, FALSE), offset, count)]
          /\ ZRangeByLexLimit(zdb, key, max_s, min_s, TRUE, encoding, offset, count)
               = [status |-> "OK",
                  res |-> LimitOf(LexMatching(key, min_s, max_s, TRUE), offset, count)]

\* over a, ab and b with one score ZRANGEBYLEX key - + LIMIT 1 1 returns
\* the three members and ZRANGE key - + BYLEX LIMIT 1 1 returns ab
C33_Witness ==
  /\ zdb[1].type = "zset"
  /\ MembersOf(zdb[1].zs) = ZMembers
  /\ EqualScores(zdb[1].zs)
  /\ ZRangeByLexInternalLimit(zdb, 1, << 45 >>, << 43 >>, FALSE, "listpack", 1, 1).res
       = << << 97 >>, << 97, 98 >>, << 98 >> >>
  /\ ZRangeByLexLimit(zdb, 1, << 45 >>, << 43 >>, FALSE, "listpack", 1, 1).res
       = << << 97, 98 >> >>

(***************************************************************************)
(* WEIGHTS (zset_family.cc): ZUNION, ZUNIONSTORE, ZINTER and ZINTERSTORE   *)
(* with the weights and the aggregate of the command, over the shards      *)
(***************************************************************************)
AggTypes == {"SUM", "MAX"}

WKeyLists == UNION {[1 .. n -> ZKeys] : n \in 2 .. 3}

\* a command with WEIGHTS: its keys, the key it stores to (present or not),
\* its weights and its aggregate
WCmds ==
  {[name |-> name, keys |-> keys, dest |-> dest, weights |-> weights, agg |-> agg] :
     name \in {"ZUNION", "ZINTER"}, keys \in WKeyLists, dest \in {<< >>},
     weights \in {<< >>, << 2, 3 >>, << 2, 3, 4 >>}, agg \in AggTypes}
  \cup
  {[name |-> name, keys |-> keys, dest |-> dest, weights |-> weights, agg |-> agg] :
     name \in {"ZUNIONSTORE", "ZINTERSTORE"}, keys \in WKeyLists,
     dest \in {<< 0 >>, << 1 >>},
     weights \in {<< >>, << 2, 3 >>, << 2, 3, 4 >>}, agg \in AggTypes}

\* ParseWeights: as many weights as keys
WellFormed(c) == c.weights = << >> \/ Len(c.weights) = Len(c.keys)

\* what a read of weights[windex] beyond the vector gives: the process
\* stops, or the read gives some number
Outcomes ==
  {[crash |-> TRUE, val |-> 0]} \cup {[crash |-> FALSE, val |-> v] : v \in 0 .. 1}

Aggregate(v1, v2, atype) ==
  CASE atype = "SUM" -> v1 + v2
    [] atype = "MAX" -> IF v1 >= v2 THEN v1 ELSE v2
    [] atype = "MIN" -> IF v1 <= v2 THEN v1 ELSE v2

FromObject(zs, weight) == {<< p[1], p[2] * weight >> : p \in zs}

UnionScoredMapAgg(dest, src, agg_type) ==
  {<< m, IF m \notin MembersOf(dest) THEN ScoreIn(src, m)
         ELSE IF m \notin MembersOf(src) THEN ScoreIn(dest, m)
         ELSE Aggregate(ScoreIn(dest, m), ScoreIn(src, m), agg_type) >> :
     m \in MembersOf(dest) \cup MembersOf(src)}

InterScoredMapAgg(dest, src, agg_type) ==
  {<< m, Aggregate(ScoreIn(dest, m), ScoreIn(src, m), agg_type) >> :
     m \in MembersOf(dest) \cap MembersOf(src)}

\* the arguments that are keys, each with its index in the arguments of the
\* command: the keys follow {numkeys}, or {destkey, numkeys}
KeyArgs(c) ==
  IF c.dest = << >> THEN [i \in 1 .. Len(c.keys) |-> << c.keys[i], i >>]
  ELSE << << c.dest[1], 0 >> >> \o [i \in 1 .. Len(c.keys) |-> << c.keys[i], i + 1 >>]

\* Transaction::GetShardArgs with the index of ShardArgs::Iterator
ShardArgsOf(c, s) == SelectSeq(KeyArgs(c), LAMBDA a : Shard(a[1]) = s)

\* windex of GetKeyWeight, an unsigned
WIndex(key_index, cmdargs_keys_offset) ==
  (key_index - cmdargs_keys_offset) % (UINT32_MAX + 1)

GetKeyWeight(weights, key_index, cmdargs_keys_offset, outcome) ==
  IF weights = << >> THEN 1
  ELSE IF WIndex(key_index, cmdargs_keys_offset) < Len(weights)
       THEN weights[WIndex(key_index, cmdargs_keys_offset) + 1]
       ELSE outcome.val

cmdargs_keys_offset(c) == IF c.dest = << >> THEN 1 ELSE 2

\* the keys of the shard after the destination, when the shard hosts it
StartOf(c, s) ==
  Bind(ShardArgsOf(c, s), LAMBDA keys :
    IF c.dest # << >> /\ keys # << >> /\ Head(keys)[1] = c.dest[1] THEN Tail(keys) ELSE keys)

removed_keys(c, s) == Len(ShardArgsOf(c, s)) - Len(StartOf(c, s))

RECURSIVE UnionShardKeysWeighted(_, _, _, _)
UnionShardKeysWeighted(db, key_weight_vec, agg_type, result) ==
  IF key_weight_vec = << >> THEN result
  ELSE Bind(Head(key_weight_vec), LAMBDA kw :
         UnionShardKeysWeighted(db, Tail(key_weight_vec), agg_type,
           IF db[kw[1]].type # "zset" THEN result
           ELSE IF result = {} THEN FromObject(db[kw[1]].zs, kw[2])
           ELSE UnionScoredMapAgg(result, FromObject(db[kw[1]].zs, kw[2]), agg_type)))

\* OpUnion: the weight of a key is looked up by the index of the key in
\* the arguments of the command
OpUnionWeighted(db, c, s, outcome) ==
  Bind(StartOf(c, s), LAMBDA start :
    IF start = << >> THEN OpResultOf("OK", {})
    ELSE OpResultOf("OK",
           UnionShardKeysWeighted(db,
             [i \in 1 .. Len(start) |->
                << start[i][1],
                   GetKeyWeight(c.weights, start[i][2], cmdargs_keys_offset(c), outcome) >>],
             c.agg, {})))

\* the indexes OpUnion reads the weights at
UnionWIndexes(db, c, s) ==
  IF c.weights = << >> THEN {} ELSE
  {WIndex(StartOf(c, s)[i][2], cmdargs_keys_offset(c)) :
     i \in {j \in 1 .. Len(StartOf(c, s)) : db[StartOf(c, s)[j][1]].type = "zset"}}

RECURSIVE InterShardKeysWeighted(_, _, _, _)
InterShardKeysWeighted(db, it_arr, agg_type, result) ==
  IF it_arr = << >> THEN result
  ELSE IF db[Head(it_arr)[1]].type = "none" THEN {}
  ELSE Bind(IF result = {} THEN FromObject(db[Head(it_arr)[1]].zs, Head(it_arr)[2])
            ELSE InterScoredMapAgg(result,
                                   FromObject(db[Head(it_arr)[1]].zs, Head(it_arr)[2]),
                                   agg_type),
            LAMBDA r : IF r = {} THEN r
                       ELSE InterShardKeysWeighted(db, Tail(it_arr), agg_type, r))

\* OpInter: the weight of a key is looked up by index + removed_keys, the
\* place of the key among the keys of the shard
OpInterWeighted(db, c, s, outcome) ==
  Bind(StartOf(c, s), LAMBDA start :
    IF start = << >> THEN OpResultOf("SKIPPED", {})
    ELSE OpResultOf("OK",
           InterShardKeysWeighted(db,
             [i \in 1 .. Len(start) |->
                << start[i][1],
                   GetKeyWeight(c.weights, (i - 1) + removed_keys(c, s),
                                cmdargs_keys_offset(c), outcome) >>],
             c.agg, {})))

\* the indexes OpInter reads the weights at
InterWIndexes(db, c, s) ==
  IF c.weights = << >> THEN {} ELSE
  {WIndex((i - 1) + removed_keys(c, s), cmdargs_keys_offset(c)) :
     i \in {j \in 1 .. Len(StartOf(c, s)) : db[StartOf(c, s)[j][1]].type = "zset"}}

RECURSIVE UnionMapsAgg(_, _, _, _)
UnionMapsAgg(maps, s, agg_type, result) ==
  IF s \notin Shards THEN result
  ELSE UnionMapsAgg(maps, s + 1, agg_type, UnionScoredMapAgg(result, maps[s].map, agg_type))

RECURSIVE IntersectFromAgg(_, _, _, _)
IntersectFromAgg(maps, s, agg_type, result) ==
  IF s \notin Shards THEN result
  ELSE IF maps[s].status = "SKIPPED" THEN IntersectFromAgg(maps, s + 1, agg_type, result)
  ELSE IF maps[s].map = {} THEN {}
  ELSE Bind(IF result = {} THEN maps[s].map
            ELSE InterScoredMapAgg(result, maps[s].map, agg_type),
            LAMBDA r : IF r = {} THEN r ELSE IntersectFromAgg(maps, s + 1, agg_type, r))

\* the step of a command with WEIGHTS: its hops run one after the other
\* under the locks of its keys; the result, the indexes the weights were
\* read at and the database before are kept
CommitW(c, windexes, outcome, result) ==
  /\ IF outcome.crash /\ \E w \in windexes : w >= Len(c.weights)
     THEN /\ zdb' = zdb
          /\ zlast' = [cmd |-> c.name, c |-> c, windexes |-> windexes, reply |-> "none",
                       res |-> {}, prev |-> zdb]
     ELSE /\ zdb' = IF c.dest = << >> THEN zdb
                    ELSE OpAdd(zdb, c.dest[1], result, FALSE, TRUE).db
          /\ zlast' = [cmd |-> c.name, c |-> c, windexes |-> windexes,
                       reply |-> IF c.dest = << >> THEN "array" ELSE "long",
                       res |-> result, prev |-> zdb]
  /\ UNCHANGED << key_locks, tx, observed, watched, bz >>
  /\ UNCHANGED << tvars, jvars, hvars, evars, svars >>

\* ZUNION and ZUNIONSTORE numkeys key ... [WEIGHTS weight ...] [AGGREGATE agg]
ZUnionWeighted(c, outcome) ==
  CommitW(c, UNION {UnionWIndexes(zdb, c, s) : s \in Shards}, outcome,
             UnionMapsAgg([s \in Shards |-> OpUnionWeighted(zdb, c, s, outcome)],
                          0, c.agg, {}))

\* ZINTER and ZINTERSTORE numkeys key ... [WEIGHTS weight ...] [AGGREGATE agg]
ZInterWeighted(c, outcome) ==
  CommitW(c, UNION {InterWIndexes(zdb, c, s) : s \in Shards}, outcome,
             IntersectFromAgg([s \in Shards |-> OpInterWeighted(zdb, c, s, outcome)],
                              0, c.agg, {}))

\* one command runs over the sorted sets of the start
NextWeights ==
  \/ /\ zlast = NoCmd
     /\ \E c \in {d \in WCmds : d.name \in {"ZUNION", "ZUNIONSTORE"} /\ WellFormed(d)},
           outcome \in Outcomes : ZUnionWeighted(c, outcome)
  \/ /\ zlast = NoCmd
     /\ \E c \in {d \in WCmds : d.name \in {"ZINTER", "ZINTERSTORE"} /\ WellFormed(d)},
           outcome \in Outcomes : ZInterWeighted(c, outcome)

\* the sorted sets the commands with WEIGHTS run over
WDbs == [ZKeys -> {ZNone, ZSet({<< 1, 1 >>}), ZSet({<< 1, 2 >>, << 2, 1 >>})}]

InitWeights == \E db \in WDbs : ZStart(db)

\* ------------------------------------------------------------------------
\* Properties of the commands with WEIGHTS
RECURSIVE AggregateAll(_, _)
AggregateAll(vals, atype) ==
  IF Len(vals) = 1 THEN vals[1]
  ELSE Aggregate(vals[1], AggregateAll(Tail(vals), atype), atype)

\* the weight of the i-th input key of the command
WeightOfKey(c, i) == IF c.weights = << >> THEN 1 ELSE c.weights[i]

\* the weighted scores of member m, one per input key that holds it
WeightedScores(db, c, m) ==
  Bind(SelectSeq([i \in 1 .. Len(c.keys) |-> i],
                 LAMBDA i : m \in MembersOf(db[c.keys[i]].zs)),
       LAMBDA holders :
         [j \in 1 .. Len(holders) |->
            ScoreIn(db[c.keys[holders[j]]].zs, m) * WeightOfKey(c, holders[j])])

\* the result of the command: the members of some (ZUNION) or of every
\* (ZINTER) input key, each with the aggregate of its weighted scores
WeightedResult(db, c) ==
  {<< m, AggregateAll(WeightedScores(db, c, m), c.agg) >> :
     m \in {n \in Members :
              IF c.name \in {"ZUNION", "ZUNIONSTORE"}
              THEN \E i \in 1 .. Len(c.keys) : n \in MembersOf(db[c.keys[i]].zs)
              ELSE \A i \in 1 .. Len(c.keys) : n \in MembersOf(db[c.keys[i]].zs)}}

WeightedCmds == {"ZUNION", "ZUNIONSTORE", "ZINTER", "ZINTERSTORE"}

\* the command of the last step read its weights inside the vector, gave
\* the weighted result and stored it at its destination
WeightsApplied ==
  /\ \A w \in zlast.windexes : w \in 0 .. Len(zlast.c.keys) - 1
  /\ zlast.reply # "none"
  /\ zlast.res = WeightedResult(zlast.prev, zlast.c)
  /\ zlast.c.dest # << >> =>
       zdb[zlast.c.dest[1]] = IF zlast.res = {} THEN ZNone ELSE ZSet(zlast.res)

\* C34: for ZUNION, ZUNIONSTORE, ZINTER and ZINTERSTORE with WEIGHTS w1..wn
\* the scores of the i-th input key are multiplied by wi before they are
\* aggregated, however the keys are spread over the shards and wherever the
\* destination lives, and the weight index is always within 0..n-1.
C34_Weights == zlast.cmd \in WeightedCmds => WeightsApplied

\* ZUNION and ZUNIONSTORE apply the weights, and every command does
\* without WEIGHTS
C34_UnionWeights ==
  (zlast.cmd \in {"ZUNION", "ZUNIONSTORE"}
     \/ (zlast.cmd \in WeightedCmds /\ zlast.c.weights = << >>)) => WeightsApplied

\* ZINTER over keys 0 and 1 of two shards has read weights[-1] on each
C34_Witness ==
  /\ zlast.cmd = "ZINTER"
  /\ zlast.c.keys = << 0, 1 >>
  /\ zlast.c.weights = << 2, 3 >>
  /\ zlast.windexes = {UINT32_MAX}
  /\ zlast.prev[0].type = "zset" /\ zlast.prev[1].type = "zset"

\* ZUNIONSTORE to a destination on the shard of a source has read the
\* weights of both keys
C34_WitnessUnion ==
  /\ zlast.cmd = "ZUNIONSTORE"
  /\ zlast.c.keys = << 2, 1 >> /\ zlast.c.dest = << 0 >>
  /\ zlast.c.weights = << 2, 3 >>
  /\ zlast.windexes = {0, 1}
  /\ zlast.res = {<< 1, 8 >>, << 2, 3 >>}

(***************************************************************************)
(* Encodings (zset_family.cc, hset_family.cc): the hash key and two        *)
(* sorted-set keys of one database with their encodings, and               *)
(* DbTableStats::listpack_blob_cnt which counts both                       *)
(***************************************************************************)
\* server.zset_max_listpack_entries, scaled
zset_max_listpack_entries == 2

\* the members "a", "b" and "abc", which is longer than max_map_field_len
ZObjMembers == {<< 97 >>, << 98 >>, << 97, 98, 99 >>}

ZObj(enc, zs) == [enc |-> enc, zs |-> zs]

\* the sorted sets and the statistics the operations work on
ZObjDb == [db |-> zobj, cnt |-> listpack_blob_cnt]

\* DbSlice::Del: the key leaves the table and its value leaves the
\* statistics
DelObj(e, key) ==
  [db |-> [e.db EXCEPT ![key] = NoZObj],
   cnt |-> IF e.db[key].enc = "listpack" THEN e.cnt - 1 ELSE e.cnt]

\* FindZEntry with the object it initialises: a new key, or any key of a
\* command that overrides, gets a skip list when member_len is above
\* max_map_field_len, else a listpack which is counted
FindZEntryObj(e, key, xx, override, member_len) ==
  IF xx THEN [status |-> IF e.db[key].enc = "none" THEN "KEY_NOTFOUND" ELSE "OK", e |-> e]
  ELSE IF e.db[key].enc = "none" \/ override
  THEN IF member_len > max_map_field_len
       THEN [status |-> "OK", e |-> [e EXCEPT !.db[key] = ZObj("skiplist", {})]]
       ELSE [status |-> "OK",
             e |-> [e EXCEPT !.db[key] = ZObj("listpack", {}), !.cnt = @ + 1]]
  ELSE [status |-> "OK", e |-> e]

\* RobjWrapper::ZsetAdd without flags: a listpack that gets a member longer
\* than max_map_field_len, or more than zset_max_listpack_entries members,
\* becomes a skip list
ZsetAddObj(obj, score, member) ==
  Bind(ZsetAdd(obj.zs, score, member, FALSE, FALSE, FALSE), LAMBDA r :
    ZObj(IF /\ obj.enc = "listpack"
            /\ r.added
            /\ \/ Len(member) > max_map_field_len
               \/ Cardinality(r.zs) > zset_max_listpack_entries
         THEN "skiplist" ELSE obj.enc,
         r.zs))

\* the loop of OpAdd over the members
RECURSIVE ZsetAddAll(_, _)
ZsetAddAll(obj, members) ==
  IF members = << >> THEN obj
  ELSE ZsetAddAll(ZsetAddObj(obj, members[1][2], members[1][1]), Tail(members))

\* OpAdd with the encodings and listpack_blob_cnt; members is the span of
\* << member, score >> in the order the command gives
OpAddObj(e, key, members, xx, override) ==
  IF override /\ members = << >>
  THEN [status |-> "OK", e |-> IF e.db[key].enc # "none" THEN DelObj(e, key) ELSE e]
  ELSE Bind(FindZEntryObj(e, key, xx, override,
                          IF Len(members) > zset_max_listpack_entries THEN UINT32_MAX
                          ELSE Len(members[1][1])),
            LAMBDA f :
         IF f.status # "OK" THEN [status |-> f.status, e |-> e]
         ELSE Bind(ZsetAddAll(f.e.db[key], members), LAMBDA obj :
                [status |-> "OK",
                 e |-> [db |-> [f.e.db EXCEPT ![key] = obj],
                        cnt |-> IF f.e.db[key].enc = "listpack" /\ obj.enc # "listpack"
                                THEN f.e.cnt - 1 ELSE f.e.cnt]]))

\* OpRem that packs a skip list again once its entries fit a listpack
OpRemObjPacks(e, key, member) ==
  IF e.db[key].enc = "none" THEN e
  ELSE Bind([e EXCEPT !.db[key].zs = {p \in @ : p[1] # member}], LAMBDA e1 :
         IF e1.db[key].zs = {} THEN DelObj(e1, key)
         ELSE IF /\ e1.db[key].enc = "skiplist"
                 /\ Cardinality(e1.db[key].zs) <= zset_max_listpack_entries
                 /\ \A p \in e1.db[key].zs : Len(p[1]) <= max_map_field_len
         THEN [e1 EXCEPT !.db[key].enc = "listpack", !.cnt = @ + 1]
         ELSE e1)

\* OpRem with the encodings: ZsetDel keeps the encoding, the key is deleted
\* when the set is empty
OpRemObj(e, key, member) ==
  IF e.db[key].enc = "none" THEN e
  ELSE Bind([e EXCEPT !.db[key].zs = {p \in @ : p[1] # member}], LAMBDA e1 :
         IF e1.db[key].zs = {} THEN DelObj(e1, key) ELSE e1)

\* the first entry of a sorted set in its order, or the last one in reverse
TopEntry(zs, reverse) ==
  CHOOSE p \in zs : \A q \in zs \ {p} : IF reverse THEN ZslLess(q, p) ELSE ZslLess(p, q)

\* OpPopCount of one entry with the encodings
OpPopCountObj(e, key, reverse) ==
  IF e.db[key].enc = "none" THEN e
  ELSE Bind([e EXCEPT !.db[key].zs = @ \ {TopEntry(@, reverse)}], LAMBDA e1 :
         IF e1.db[key].zs = {} THEN DelObj(e1, key) ELSE e1)

\* a command on the sorted sets ends
CommitE(cmd, key, e) ==
  /\ num_cmds < MaxCmds
  /\ num_cmds' = num_cmds + 1
  /\ zobj' = e.db
  /\ listpack_blob_cnt' = e.cnt
  /\ last_cmd' = [cmd |-> cmd, key |-> key, was |-> zobj[key].enc]
  /\ UNCHANGED << hash_pv, listpack_bytes, hash_now >>
  /\ UNCHANGED << tvars, jvars, zvars, rvars, svars >>

\* the spans of ZADD: one to three distinct members, each with score 1
ZObjSpans ==
  {m \in UNION {[1 .. n -> ZObjMembers] : n \in 1 .. 3} :
     \A i \in 1 .. Len(m), j \in 1 .. Len(m) : i # j => m[i] # m[j]}

ScoredSpan(m) == [i \in 1 .. Len(m) |-> << m[i], 1 >>]

\* ZADD key 1 member [1 member ...]
ZAddObj(key, m) ==
  CommitE("ZADD", key, OpAddObj(ZObjDb, key, ScoredSpan(m), FALSE, FALSE).e)

\* ZREM key member
ZRemObj(key, member) == CommitE("ZREM", key, OpRemObj(ZObjDb, key, member))

\* ZPOPMIN key, ZPOPMAX key
ZPopObj(key, reverse) ==
  CommitE(IF reverse THEN "ZPOPMAX" ELSE "ZPOPMIN", key, OpPopCountObj(ZObjDb, key, reverse))

\* the orders in which the result map of a store command can be iterated
SpansOf(zs) ==
  {m \in UNION {[1 .. n -> zs] : n \in {Cardinality(zs)}} :
     \A i \in 1 .. Len(m), j \in 1 .. Len(m) : i # j => m[i] # m[j]}

\* ZUNIONSTORE dest 1 src: the store callback adds the result with
\* zparams.override
ZUnionStoreObj(dest, src) ==
  \E smvec \in SpansOf(zobj[src].zs) :
    CommitE("ZUNIONSTORE", dest, OpAddObj(ZObjDb, dest, smvec, FALSE, TRUE).e)

\* the increments of HINCRBY and HINCRBYFLOAT: 1, 1.0 and nan
EncIncrs == {<< 1, FALSE >>, << 1, TRUE >>, << kNaN, TRUE >>}

\* the commands on the hash key and on the sorted sets
NextEnc ==
  \/ \E field \in HFields, val \in HVals : HSet(<< << field, val >> >>)
  \/ \E field \in HFields, val \in HVals : HSetEx(field, val, 1)
  \/ \E field \in HFields : HDel(<< field >>)
  \/ \E field \in HIncrFields, p \in EncIncrs : HIncrBy(field, p[1], p[2])
  \/ \E key \in ZObjKeys, m \in ZObjSpans : ZAddObj(key, m)
  \/ \E key \in ZObjKeys, member \in ZObjMembers : ZRemObj(key, member)
  \/ \E key \in ZObjKeys, reverse \in BOOLEAN : ZPopObj(key, reverse)
  \/ \E dest \in ZObjKeys, src \in ZObjKeys : ZUnionStoreObj(dest, src)

\* ------------------------------------------------------------------------
\* Properties of the encodings
\* the hash key holds a listpack hash without fields
EmptyListpackHash == hash_pv.tag = "hash" /\ hash_pv.enc = "listpack" /\ hash_pv.lp = << >>

\* the sorted-set keys that hold a sorted set without entries
EmptyZSets == {k \in ZObjKeys : zobj[k].enc # "none" /\ zobj[k].zs = {}}

\* C29: after any hash or sorted-set command, no key holds a listpack hash
\* or a sorted set with zero elements: removing the last element deletes
\* the key, and a command that fails or adds nothing leaves no newly
\* created empty container behind.
C29_NoEmptyContainer == ~EmptyListpackHash /\ EmptyZSets = {}

\* C29 without the hash commands that fail on a key they created: no
\* sorted set is empty, and a listpack hash is empty only after a failed
\* increment
C29_EmptyOnlyByFailedIncr ==
  /\ [](EmptyZSets = {})
  /\ [][(~EmptyListpackHash /\ EmptyListpackHash') =>
         (last_cmd'.cmd = "HINCRBYFLOAT" /\ last_cmd'.status = "INVALID_FLOAT")]_vars

\* the values of the database in listpack encoding
ListpackValues ==
  (IF hash_pv.tag = "hash" /\ hash_pv.enc = "listpack" THEN 1 ELSE 0)
    + Cardinality({k \in ZObjKeys : zobj[k].enc = "listpack"})

\* C30: in every reachable state listpack_blob_cnt equals the number of
\* hash and sorted-set values in listpack encoding, across creation,
\* promotion, overwrite of an existing destination and deletion of the key.
C30_ListpackBlobCnt == listpack_blob_cnt = ListpackValues

\* this step stores a result over a sorted set that exists
StoresOver ==
  /\ last_cmd'.cmd = "ZUNIONSTORE"
  /\ zobj[last_cmd'.key].enc # "none"
  /\ zobj'[last_cmd'.key].enc # "none"

\* C30 for the other steps: the count follows the number of listpack values
C30_CountFollows ==
  [][~StoresOver =>
       listpack_blob_cnt' - listpack_blob_cnt = ListpackValues' - ListpackValues]_vars

\* the hash key holds a StrMap hash before this step and a listpack hash
\* after it
HashPackedAgain ==
  /\ hash_pv.tag = "hash" /\ hash_pv.enc = "strmap"
  /\ hash_pv'.tag = "hash" /\ hash_pv'.enc = "listpack"

\* the keys that hold a skip list before this step and a listpack after it
ZSetsPackedAgain == {k \in ZObjKeys : zobj[k].enc = "skiplist" /\ zobj'[k].enc = "listpack"}

\* C26 as claimed: once the hash or sorted set at a key has StrMap or
\* skip-list encoding, no later command makes the container at that key
\* listpack-encoded again for as long as the key continues to exist.
C26_Irreversible == [][~HashPackedAgain /\ ZSetsPackedAgain = {}]_vars

\* C26: a command that changes a container in place (HSET, HSETEX, HDEL,
\* HINCRBY, ZADD, ZREM, ZPOPMIN, ZPOPMAX) never turns a StrMap hash or a
\* skip-list sorted set into a listpack; a key that held a skip list holds
\* a listpack only after a store command replaced the value at that
\* destination with a fresh object.
C26_IrreversibleInPlace ==
  [][/\ ~HashPackedAgain
     /\ \A k \in ZSetsPackedAgain :
          last_cmd'.cmd = "ZUNIONSTORE" /\ last_cmd'.key = k]_vars

\* C26 witness: after a removal a skip list is still a skip list although
\* its entries would fit a listpack
C26_Witness ==
  \E k \in ZObjKeys :
    /\ last_cmd.cmd \in {"ZREM", "ZPOPMIN", "ZPOPMAX"}
    /\ last_cmd.key = k
    /\ zobj[k].enc = "skiplist"
    /\ zobj[k].zs # {}
    /\ Cardinality(zobj[k].zs) <= zset_max_listpack_entries
    /\ \A p \in zobj[k].zs : Len(p[1]) <= max_map_field_len

\* C26 witness for the hash: after HDEL a StrMap hash is still a StrMap
\* although its fields would fit a listpack
C26_WitnessHash ==
  /\ last_cmd.cmd = "HDEL"
  /\ last_cmd.created > 0
  /\ hash_pv.tag = "hash" /\ hash_pv.enc = "strmap"
  /\ \A i \in 1 .. Len(hash_pv.sm) :
       Len(hash_pv.sm[i].f) <= max_map_field_len /\ Len(hash_pv.sm[i].v) <= max_map_field_len
  /\ hash_pv.sm # << >>

\* C26 witness of the store: a key that held a skip list holds a listpack
\* after ZUNIONSTORE
C26_WitnessStored ==
  \E k \in ZObjKeys :
    /\ last_cmd.cmd = "ZUNIONSTORE"
    /\ last_cmd.key = k
    /\ last_cmd.was = "skiplist"
    /\ zobj[k].enc = "listpack"

\* the statuses with which a write command on a hash replies an error
ErrorStatuses ==
  {"WRONG_TYPE", "INVALID_VALUE", "INVALID_FLOAT", "OUT_OF_RANGE", "kInvalidIntErr"}

\* this step is a command that replies with an error
RepliesError == "status" \in DOMAIN last_cmd' /\ last_cmd'.status \in ErrorStatuses

\* the (field, value) pairs of the object at the hash key
PairsAt(pv) ==
  IF pv.tag # "hash" THEN << >>
  ELSE IF pv.enc = "listpack" THEN LpPairs(pv.lp) ELSE SmPairs(pv.sm)

\* C31: a hash or sorted-set write command that replies with an error
\* leaves the state of the shard unchanged: the same keys exist with the
\* same contents and the same listpack statistics as before the command.
C31_ErrorChangesNothing ==
  [][RepliesError =>
       /\ hash_pv' = hash_pv
       /\ zobj' = zobj
       /\ listpack_blob_cnt' = listpack_blob_cnt
       /\ listpack_bytes' = listpack_bytes]_vars

\* C31 for the contents alone: a command that replies with an error changes
\* no field and no value of the hash and no sorted set
C31_ErrorKeepsPairs ==
  [][RepliesError => (PairsAt(hash_pv') = PairsAt(hash_pv) /\ zobj' = zobj)]_vars

\* C31 for the sorted-set commands of one connection: a ZADD, ZADD INCR or
\* ZINCRBY that replies with an error leaves the database as it was
C31_ZSetErrorKeepsDb ==
  (zlast # NoCmd /\ zlast.reply \in {"kWrongTypeErr", "kInvalidFloatErr", "kScoreNaN"}) =>
    zlast.next = zlast.prev

\* ------------------------------------------------------------------------
\* Properties of HINCRBY
\* this step is an HINCRBY
IncrStep == num_cmds' = num_cmds + 1 /\ last_cmd'.cmd = "HINCRBY"

\* the number the field holds before the step; a missing field or key
\* counts as 0
OldOf(field) ==
  IF OpGet(HashDb, field).status = "OK" THEN StrToInt(OpGet(HashDb, field).val) ELSE 0

\* the field holds an integer, or the field or the key is missing
IntegerOrMissing(field) ==
  /\ hash_pv.tag \in {"none", "hash"}
  /\ OpGet(HashDb, field).status = "OK" => string2ll(OpGet(HashDb, field).val)

\* C32: HINCRBY returns OUT_OF_RANGE exactly when old + incr lies outside
\* the range of long long, a missing field or key counting as 0, and
\* leaves the field as it was; in every other case with an integer old
\* value it stores and returns exactly old + incr.
C32_IncrByRange ==
  [][(IncrStep /\ IntegerOrMissing(last_cmd'.values[1][1])) =>
       LET field == last_cmd'.values[1][1]
           sum   == OldOf(field) + StrToInt(last_cmd'.values[1][2])
       IN IF sum \notin LLONG_MIN .. LLONG_MAX
          THEN /\ last_cmd'.status = "OUT_OF_RANGE"
               /\ OpGet(HashDb, field) = OpGet(HashDb', field)
          ELSE /\ last_cmd'.status = "OK"
               /\ last_cmd'.created = sum
               /\ OpGet(HashDb', field) = [status |-> "OK", val |-> IntToStr(sum)]]_vars

\* C32 witness: an HINCRBY below the range was refused and the field holds
\* its negative value
C32_Witness ==
  /\ last_cmd.cmd = "HINCRBY"
  /\ last_cmd.status = "OUT_OF_RANGE"
  /\ StrToInt(last_cmd.values[1][2]) < 0
  /\ OpGet(HashDb, last_cmd.values[1][1]).status = "OK"
  /\ StrToInt(OpGet(HashDb, last_cmd.values[1][1]).val) < 0

\* C32 witness at the upper bound: an HINCRBY stored LLONG_MAX
C32_WitnessMax ==
  /\ last_cmd.cmd = "HINCRBY"
  /\ last_cmd.status = "OK"
  /\ last_cmd.created = LLONG_MAX
  /\ OpGet(HashDb, last_cmd.values[1][1]).val = IntToStr(LLONG_MAX)

\* C32 witness of a missing key: HINCRBY created the hash with the increment
C32_WitnessNew ==
  /\ last_cmd.cmd = "HINCRBY"
  /\ last_cmd.status = "OK"
  /\ last_cmd.was = "none"
  /\ last_cmd.created = LLONG_MIN

(***************************************************************************)
(* Specifications: one per subsystem; the other subsystems stay idle       *)
(***************************************************************************)
InitTieredOnly == InitTiered /\ InitJournal /\ IdleHash /\ IdleZSet

SpecTiered == InitTieredOnly /\ [][NextTiered]_vars

SpecOffload == InitTieredOnly /\ [][NextOffload]_vars

SpecFetch == InitTieredOnly /\ [][NextFetch]_vars

InitThrottle == IdleTiered /\ InitJournal /\ IdleHash /\ IdleZSet

SpecThrottle == InitThrottle /\ [][NextThrottle]_vars

InitHashOnly == IdleTiered /\ InitJournal /\ InitHash /\ IdleZSet

SpecHash == InitHashOnly /\ [][NextHash]_vars

SpecHashTtl == InitHashOnly /\ [][NextHashTtl]_vars

InitTx == IdleTiered /\ InitJournal /\ IdleHash /\ InitZSet

SpecTx == InitTx /\ [][NextTx]_vars

InitBZPop == IdleTiered /\ InitJournal /\ IdleHash /\ InitBZ

SpecBZPop == InitBZPop /\ [][NextBZPop]_vars

InitZCmd == IdleTiered /\ InitJournal /\ IdleHash /\ InitBZ

SpecZCmd == InitZCmd /\ [][NextZCmd]_vars

InitIncrOnly == IdleTiered /\ InitJournal /\ InitIncr /\ IdleZSet

SpecIncr == InitIncrOnly /\ [][NextIncr]_vars

InitWeightsOnly == IdleTiered /\ InitJournal /\ IdleHash /\ InitWeights

SpecWeights == InitWeightsOnly /\ [][NextWeights]_vars

SpecStream == InitThrottle /\ [][NextStream]_vars /\ StreamFairness

SpecRestore == InitThrottle /\ [][NextRestore]_vars

SpecDriver == InitThrottle /\ [][NextDriver]_vars /\ DriverFairness

InitEnc == IdleTiered /\ InitJournal /\ IdleHash /\ IdleZSet

SpecEnc == InitEnc /\ [][NextEnc]_vars

====
